---- MODULE Spec2Model ----
(***************************************************************************)
(* FinovatePay: the transaction recovery pipeline of the backend           *)
(* (recoveryService.js, escrow controller) and the on-chain escrow         *)
(* protocol (EscrowContract.sol).                                          *)
(*                                                                         *)
(* Every awaited store or ledger call of a JavaScript handler is one       *)
(* atomic step: between two awaits other handlers and timers interleave.   *)
(* A store call may raise; the raise follows the handler's own try/catch.  *)
(***************************************************************************)
EXTENDS Integers, Sequences, FiniteSets, TLC

(***************************************************************************)
(* Bounds of the model.                                                    *)
(***************************************************************************)
MaxSagas == 1
MaxDlqRows == 2

(***************************************************************************)
(* Program constants.                                                      *)
(***************************************************************************)
DefaultMaxRetries == 5
BatchLimit == 10
BackoffCapMinutes == 60

Requests == 1..MaxSagas
CorrIds == 1..MaxSagas
Ticks == {"worker", "manual"}
Invoices == {"inv1"}
RequestInvoices == {"inv1", "unknown"}

NoSaga == [state |-> "NONE"]
InitialSteps == <<"BLOCKCHAIN_TX", "DB_UPDATE", "AUDIT_LOG">>
Unset == <<"UNSET">>

VARIABLES
    saga,           \* transaction_states, by correlation id
    queue,          \* transaction_recovery_queue: a set of rows
    dlq,            \* dead_letter_queue: the rows in insertion order
    mirror,         \* invoices.escrow_status
    rowLock,        \* the holder of each invoice's row lock (0: free)
    ledgerTx,       \* whether a confirmRelease transaction was mined for the invoice
    recoveryWrote,  \* whether retryEscrowRelease has written the invoice's mirror row
    rpc,            \* releaseEscrow: position of each request
    rinv,           \* releaseEscrow: req.body.invoiceId of each request
    tpc,            \* processRecoveryQueue: position of each run
    tops,           \* processRecoveryQueue: result.rows of each run
    tidx,           \* processRecoveryQueue: index of the current op in tops
    invoked         \* the rows (id, retry_count) whose handler each running tick has invoked

backendVars == <<saga, queue, dlq, mirror, rowLock, ledgerTx, recoveryWrote,
                 rpc, rinv, tpc, tops, tidx, invoked>>

\* The escrow contract's storage and the balances it moves.
VARIABLES
    escrows,              \* mapping(bytes32 => Escrow)
    disputeVotings,       \* mapping(bytes32 => DisputeVoting)
    hasVoted,             \* mapping(bytes32 => mapping(address => bool))
    arbitrators,          \* the registry's current arbitrators
    feePercentage,
    minimumEscrowAmount,
    now,                  \* block.timestamp
    held,                 \* what the contract holds of each token
    nftHolder,            \* who holds the produce NFT an escrow may lock
    deposited,            \* per invoice id, the sum its buyers paid in
    paidOut,              \* per invoice id, the sum the contract transferred out
    lastRelease,          \* the transfers of the latest releasing transaction
    creations,            \* createEscrow calls so far
    confirmCalls          \* per escrow record, the parties whose confirmRelease call succeeded

contractVars == <<escrows, disputeVotings, hasVoted, arbitrators, feePercentage,
                  minimumEscrowAmount, now, held, nftHolder, deposited, paidOut,
                  lastRelease, creations, confirmCalls>>

\* The invoice-id codec of the API server.
VARIABLES
    codecUuid,            \* the UUID given to uuidToBytes32 (Unset: none yet)
    codecWord,            \* the bytes32 string it returned
    codecOut              \* what bytes32ToUuid made of that string

codecVars == <<codecUuid, codecWord, codecOut>>

\* The dispute and approval routes of the API server.
VARIABLES
    hpc,                  \* position of the one call of each route
    ledgerStatus          \* the ledger's escrow status of each invoice

routeVars == <<hpc, ledgerStatus>>

\* The reconciliation run of recoveryService.js.
VARIABLES
    invoices,             \* escrow-bearing rows of the invoices table, newest first
    chain,                \* the ledger's escrow record of each invoice id
    logs,                 \* reconciliation_logs rows of the run, in insertion order
    summaryRow,           \* the reconciliation_summary row of the run id
    rcpc,                 \* position of runReconciliation
    totalInvoices,        \* local totalInvoices
    offset,               \* local offset
    batch,                \* local invoices (the page read last)
    bidx,                 \* position of the for loop in the page
    chainData,            \* local chainData
    summary,              \* local summary
    returned,             \* how the call ended
    invoiceFaults,        \* invoices whose ledger read or log insert was made to fail
    engineFault           \* some other store call was made to fail

reconVars == <<invoices, chain, logs, summaryRow, rcpc, totalInvoices, offset, batch,
               bidx, chainData, summary, returned, invoiceFaults, engineFault>>

serviceVars == <<codecVars, routeVars, reconVars>>

Min(a, b) == IF a < b THEN a ELSE b

RECURSIVE Pow2(_)
Pow2(n) == IF n = 0 THEN 1 ELSE 2 * Pow2(n - 1)

(***************************************************************************)
(* recoveryService.js                                                      *)
(***************************************************************************)

\* createTransactionState: the inserted row.
NewSaga(invoiceId) ==
    [state |-> "PENDING", steps_completed |-> <<>>, steps_remaining |-> InitialSteps,
     completed_at |-> FALSE, entity_id |-> invoiceId]

\* updateTransactionState: the row after the UPDATE. A step list is written
\* only when the caller passes it; completed_at is stamped on three states.
UpdatedSaga(s, newState, stepsCompleted, stepsRemaining) ==
    [s EXCEPT !.state = newState,
              !.steps_completed = IF stepsCompleted = Unset THEN @ ELSE stepsCompleted,
              !.steps_remaining = IF stepsRemaining = Unset THEN @ ELSE stepsRemaining,
              !.completed_at = IF newState \in {"COMPLETED", "FAILED", "DLQ"} THEN TRUE ELSE @]

\* updateTransactionState as a store write: UPDATE ... WHERE correlation_id = $1
\* changes nothing when no row has the id.
updateTransactionState(c, newState, stepsCompleted, stepsRemaining) ==
    saga' = IF saga[c] = NoSaga THEN saga
            ELSE [saga EXCEPT ![c] = UpdatedSaga(@, newState, stepsCompleted, stepsRemaining)]

\* addToRecoveryQueue: backoffMinutes.
BackoffUncapped(retryCount) == Pow2(retryCount)
BackoffMinutes(retryCount) == Min(Pow2(retryCount), BackoffCapMinutes)

RowIds == 1..(2 * MaxSagas + 2)
UsedRowIds == {r.id : r \in queue}
                  \cup UNION {{tops[t][i].id : i \in 1..Len(tops[t])} : t \in Ticks}
FreshRowId == CHOOSE i \in RowIds : i \notin UsedRowIds /\ \A j \in RowIds : j < i => j \in UsedRowIds

\* addToRecoveryQueue: INSERT ... ON CONFLICT (correlation_id) DO UPDATE, as
\* the statement reads. The store accepts it only where correlation_id has a
\* unique index; migration 006 creates a plain index, and under that schema
\* the statement raises on every call (the raise is the ~ok branch of the
\* callers).
\* The insert takes the column defaults (max_retries 5); the update keeps the
\* row's id and max_retries and replaces retry_count, next_retry_at, status.
UpsertedQueue(c, opData, retryCount) ==
    IF \E r \in queue : r.cid = c
    THEN {IF r.cid = c
          THEN [r EXCEPT !.retry_count = retryCount,
                         !.next_retry_in = BackoffMinutes(retryCount),
                         !.status = "PENDING"]
          ELSE r : r \in queue}
    ELSE queue \cup {[id |-> FreshRowId, cid |-> c, op |-> opData,
                      retry_count |-> retryCount, max_retries |-> DefaultMaxRetries,
                      next_retry_in |-> BackoffMinutes(retryCount), status |-> "PENDING"]}

addToRecoveryQueue(c, opData, retryCount) == queue' = UpsertedQueue(c, opData, retryCount)

\* The compensation_actions table: migration 006 creates it, and no statement
\* of the backend inserts into it or updates it.
compensation_actions == {}

\* shouldCompensate.
shouldCompensate(opData) ==
    \/ opData.operationType = "ESCROW_RELEASE" /\ "BLOCKCHAIN_TX" \in opData.stepsCompleted
    \/ opData.operationType = "FINANCING_PIPELINE" /\ "KATANA_LIQUIDITY" \in opData.stepsCompleted

(***************************************************************************)
(* releaseEscrow (escrow controller)                                       *)
(***************************************************************************)

\* The operation data the catch block enqueues: stepsCompleted is the
\* literal ['BLOCKCHAIN_TX'] whatever step raised.
ReleaseOpData(invoiceId) ==
    [operationType |-> "ESCROW_RELEASE", invoiceId |-> invoiceId,
     stepsCompleted |-> {"BLOCKCHAIN_TX"}]

Goto(r, pc) == rpc' = [rpc EXCEPT ![r] = pc]

\* createTransactionState: a raise leaves correlationId null, and the catch
\* block then only rolls back and answers 500.
ReleaseStart(r, ok) ==
    /\ rpc[r] = "idle"
    /\ \E inv \in RequestInvoices :
          /\ rinv' = [rinv EXCEPT ![r] = inv]
          /\ IF ok
             THEN saga' = [saga EXCEPT ![r] = NewSaga(inv)] /\ Goto(r, "toProcessing")
             ELSE saga' = saga /\ Goto(r, "done")
    /\ UNCHANGED <<queue, dlq, mirror, rowLock, ledgerTx, recoveryWrote, tpc, tops, tidx, invoked>>
    /\ UNCHANGED contractVars
    /\ UNCHANGED serviceVars

\* updateTransactionState(correlationId, 'PROCESSING')
ReleaseToProcessing(r, ok) ==
    /\ rpc[r] = "toProcessing"
    /\ \/ ok /\ updateTransactionState(r, "PROCESSING", Unset, Unset) /\ Goto(r, "begin")
       \/ ~ok /\ saga' = saga /\ Goto(r, "catch")
    /\ UNCHANGED <<queue, dlq, mirror, rowLock, ledgerTx, recoveryWrote, rinv, tpc, tops, tidx, invoked>>
    /\ UNCHANGED contractVars
    /\ UNCHANGED serviceVars

\* BEGIN; SELECT * FROM invoices WHERE invoice_id = $1 FOR UPDATE, and the two
\* checks on its result. The select waits while another transaction holds the row.
ReleaseFetchInvoice(r, ok) ==
    /\ rpc[r] = "begin"
    /\ \/ /\ ok /\ rinv[r] \notin Invoices
          /\ Goto(r, "catch") /\ rowLock' = rowLock
       \/ /\ ok /\ rinv[r] \in Invoices
          /\ rowLock[rinv[r]] = 0
          /\ rowLock' = [rowLock EXCEPT ![rinv[r]] = r]
          /\ IF mirror[rinv[r]] = "released" THEN Goto(r, "catch") ELSE Goto(r, "ledger")
       \/ ~ok /\ Goto(r, "catch") /\ rowLock' = rowLock
    /\ UNCHANGED <<saga, queue, dlq, mirror, ledgerTx, recoveryWrote, rinv, tpc, tops, tidx, invoked>>
    /\ UNCHANGED contractVars
    /\ UNCHANGED serviceVars

\* logFinancialTransaction; escrowContract.confirmRelease; tx.wait(). The
\* call is mined and reported, or fails unmined, or is mined while the wait raises.
ReleaseLedgerCall(r, ok) ==
    /\ rpc[r] = "ledger"
    /\ \/ ok /\ ledgerTx' = [ledgerTx EXCEPT ![rinv[r]] = TRUE] /\ Goto(r, "afterTx")
       \/ ~ok /\ ledgerTx' = ledgerTx /\ Goto(r, "catch")
       \/ ~ok /\ ledgerTx' = [ledgerTx EXCEPT ![rinv[r]] = TRUE] /\ Goto(r, "catch")
    /\ UNCHANGED <<saga, queue, dlq, mirror, rowLock, recoveryWrote, rinv, tpc, tops, tidx, invoked>>
    /\ UNCHANGED contractVars
    /\ UNCHANGED serviceVars

\* updateTransactionState(.., 'PROCESSING', {stepsCompleted: ['BLOCKCHAIN_TX'],
\*                                          stepsRemaining: ['DB_UPDATE', 'AUDIT_LOG']})
ReleaseAfterTx(r, ok) ==
    /\ rpc[r] = "afterTx"
    /\ \/ /\ ok
          /\ updateTransactionState(r, "PROCESSING", <<"BLOCKCHAIN_TX">>, <<"DB_UPDATE", "AUDIT_LOG">>)
          /\ Goto(r, "dbUpdate")
       \/ ~ok /\ saga' = saga /\ Goto(r, "catch")
    /\ UNCHANGED <<queue, dlq, mirror, rowLock, ledgerTx, recoveryWrote, rinv, tpc, tops, tidx, invoked>>
    /\ UNCHANGED contractVars
    /\ UNCHANGED serviceVars

\* UPDATE invoices SET escrow_status = 'released' inside the open transaction:
\* the write is visible to others at COMMIT.
ReleaseDbUpdate(r, ok) ==
    /\ rpc[r] = "dbUpdate"
    /\ \/ ok /\ Goto(r, "commit")
       \/ ~ok /\ Goto(r, "catch")
    /\ UNCHANGED <<saga, queue, dlq, mirror, rowLock, ledgerTx, recoveryWrote, rinv, tpc, tops, tidx, invoked>>
    /\ UNCHANGED contractVars
    /\ UNCHANGED serviceVars

\* COMMIT
ReleaseCommit(r, ok) ==
    /\ rpc[r] = "commit"
    /\ \/ /\ ok
          /\ mirror' = [mirror EXCEPT ![rinv[r]] = "released"]
          /\ rowLock' = [rowLock EXCEPT ![rinv[r]] = 0]
          /\ Goto(r, "afterCommit")
       \/ ~ok /\ mirror' = mirror /\ rowLock' = rowLock /\ Goto(r, "catch")
    /\ UNCHANGED <<saga, queue, dlq, ledgerTx, recoveryWrote, rinv, tpc, tops, tidx, invoked>>
    /\ UNCHANGED contractVars
    /\ UNCHANGED serviceVars

\* updateTransactionState(.., 'PROCESSING', {stepsCompleted: ['BLOCKCHAIN_TX', 'DB_UPDATE'],
\*                                          stepsRemaining: ['AUDIT_LOG']})
ReleaseAfterCommit(r, ok) ==
    /\ rpc[r] = "afterCommit"
    /\ \/ /\ ok
          /\ updateTransactionState(r, "PROCESSING", <<"BLOCKCHAIN_TX", "DB_UPDATE">>, <<"AUDIT_LOG">>)
          /\ Goto(r, "audit")
       \/ ~ok /\ saga' = saga /\ Goto(r, "catch")
    /\ UNCHANGED <<queue, dlq, mirror, rowLock, ledgerTx, recoveryWrote, rinv, tpc, tops, tidx, invoked>>
    /\ UNCHANGED contractVars
    /\ UNCHANGED serviceVars

\* UPDATE financial_transactions; logAudit
ReleaseAudit(r, ok) ==
    /\ rpc[r] = "audit"
    /\ \/ ok /\ Goto(r, "complete")
       \/ ~ok /\ Goto(r, "catch")
    /\ UNCHANGED <<saga, queue, dlq, mirror, rowLock, ledgerTx, recoveryWrote, rinv, tpc, tops, tidx, invoked>>
    /\ UNCHANGED contractVars
    /\ UNCHANGED serviceVars

\* updateTransactionState(.., 'COMPLETED', {stepsCompleted: [all three]}):
\* stepsRemaining is not passed.
ReleaseComplete(r, ok) ==
    /\ rpc[r] = "complete"
    /\ \/ /\ ok
          /\ updateTransactionState(r, "COMPLETED", InitialSteps, Unset)
          /\ Goto(r, "emit")
       \/ ~ok /\ saga' = saga /\ Goto(r, "catch")
    /\ UNCHANGED <<queue, dlq, mirror, rowLock, ledgerTx, recoveryWrote, rinv, tpc, tops, tidx, invoked>>
    /\ UNCHANGED contractVars
    /\ UNCHANGED serviceVars

\* io.to(..).emit('escrow:released') and res.json, inside the try block.
ReleaseEmit(r, ok) ==
    /\ rpc[r] = "emit"
    /\ \/ ok /\ Goto(r, "done")
       \/ ~ok /\ Goto(r, "catch")
    /\ UNCHANGED <<saga, queue, dlq, mirror, rowLock, ledgerTx, recoveryWrote, rinv, tpc, tops, tidx, invoked>>
    /\ UNCHANGED contractVars
    /\ UNCHANGED serviceVars

\* catch: ROLLBACK gives the row lock back and drops the uncommitted write.
ReleaseRollback(r, ok) ==
    /\ rpc[r] = "catch" /\ ok
    /\ rowLock' = [i \in Invoices |-> IF rowLock[i] = r THEN 0 ELSE rowLock[i]]
    /\ Goto(r, "enqueue")
    /\ UNCHANGED <<saga, queue, dlq, mirror, ledgerTx, recoveryWrote, rinv, tpc, tops, tidx, invoked>>
    /\ UNCHANGED contractVars
    /\ UNCHANGED serviceVars

\* catch: addToRecoveryQueue(correlationId, {...}, 0, error.message). A raise
\* here leaves the handler (nothing catches it).
ReleaseEnqueue(r, ok) ==
    /\ rpc[r] = "enqueue"
    /\ \/ ok /\ addToRecoveryQueue(r, ReleaseOpData(rinv[r]), 0) /\ Goto(r, "markFailed")
       \/ ~ok /\ queue' = queue /\ Goto(r, "done")
    /\ UNCHANGED <<saga, dlq, mirror, rowLock, ledgerTx, recoveryWrote, rinv, tpc, tops, tidx, invoked>>
    /\ UNCHANGED contractVars
    /\ UNCHANGED serviceVars

\* catch: updateTransactionState(correlationId, 'FAILED'); logAudit; 500.
ReleaseMarkFailed(r, ok) ==
    /\ rpc[r] = "markFailed"
    /\ \/ ok /\ updateTransactionState(r, "FAILED", Unset, Unset)
       \/ ~ok /\ saga' = saga
    /\ Goto(r, "done")
    /\ UNCHANGED <<queue, dlq, mirror, rowLock, ledgerTx, recoveryWrote, rinv, tpc, tops, tidx, invoked>>
    /\ UNCHANGED contractVars
    /\ UNCHANGED serviceVars

releaseEscrow(r, ok) ==
    \/ ReleaseStart(r, ok)
    \/ ReleaseToProcessing(r, ok)
    \/ ReleaseFetchInvoice(r, ok)
    \/ ReleaseLedgerCall(r, ok)
    \/ ReleaseAfterTx(r, ok)
    \/ ReleaseDbUpdate(r, ok)
    \/ ReleaseCommit(r, ok)
    \/ ReleaseAfterCommit(r, ok)
    \/ ReleaseAudit(r, ok)
    \/ ReleaseComplete(r, ok)
    \/ ReleaseEmit(r, ok)
    \/ ReleaseRollback(r, ok)
    \/ ReleaseEnqueue(r, ok)
    \/ ReleaseMarkFailed(r, ok)

(***************************************************************************)
(* processRecoveryQueue (recoveryService.js)                               *)
(***************************************************************************)

Op(t) == tops[t][tidx[t]]

\* WHERE status = 'PENDING' AND next_retry_at <= NOW()
DueRows == {r \in queue : r.status = "PENDING" /\ r.next_retry_in <= 0}

\* ORDER BY next_retry_at ASC LIMIT 10. The model keeps the minutes left to
\* next_retry_at, so all due rows compare equal and come in any order.
\* The fields of a selected row that the loop reads.
Selected(r) ==
    [id |-> r.id, cid |-> r.cid, op |-> r.op,
     retry_count |-> r.retry_count, max_retries |-> r.max_retries]

Selections ==
    LET n == Min(BatchLimit, Cardinality(DueRows))
    IN  {[i \in 1..n |-> Selected(f[i])] :
            f \in {g \in [1..n -> DueRows] : \A i, j \in 1..n : i # j => g[i] # g[j]}}

TickGoto(t, pc) == tpc' = [tpc EXCEPT ![t] = pc]

\* The end of one iteration of `for (const op of operations)`.
TickNextOp(t) ==
    IF tidx[t] < Len(tops[t])
    THEN /\ tidx' = [tidx EXCEPT ![t] = @ + 1]
         /\ TickGoto(t, "mark")
         /\ UNCHANGED <<tops, invoked>>
    ELSE /\ tidx' = [tidx EXCEPT ![t] = 0]
         /\ tops' = [tops EXCEPT ![t] = <<>>]
         /\ invoked' = [invoked EXCEPT ![t] = {}]
         /\ TickGoto(t, "idle")

\* An error that leaves processRecoveryQueue: the interval callback (or the
\* route) catches it, and the rest of the batch is not visited.
TickAbort(t) ==
    /\ tidx' = [tidx EXCEPT ![t] = 0]
    /\ tops' = [tops EXCEPT ![t] = <<>>]
    /\ invoked' = [invoked EXCEPT ![t] = {}]
    /\ TickGoto(t, "idle")

\* SELECT * FROM transaction_recovery_queue WHERE ... (a run that finds no
\* row returns 0 and changes nothing).
TickSelect(t, ok) ==
    /\ tpc[t] = "idle" /\ ok
    /\ DueRows # {}
    /\ \E ops \in Selections :
          /\ tops' = [tops EXCEPT ![t] = ops]
          /\ tidx' = [tidx EXCEPT ![t] = 1]
    /\ TickGoto(t, "mark")
    /\ UNCHANGED <<saga, queue, dlq, mirror, rowLock, ledgerTx, recoveryWrote, rpc, rinv, invoked>>
    /\ UNCHANGED contractVars
    /\ UNCHANGED serviceVars

\* UPDATE transaction_recovery_queue SET status = $1 WHERE id = $2
SetRowStatus(id, status) ==
    queue' = {IF r.id = id THEN [r EXCEPT !.status = status] ELSE r : r \in queue}

\* UPDATE ... SET status = 'PROCESSING' WHERE id = op.id
TickMarkProcessing(t, ok) ==
    /\ tpc[t] = "mark"
    /\ \/ ok /\ SetRowStatus(Op(t).id, "PROCESSING") /\ TickGoto(t, "sagaProcessing")
       \/ ~ok /\ queue' = queue /\ TickGoto(t, "catch")
    /\ UNCHANGED <<saga, dlq, mirror, rowLock, ledgerTx, recoveryWrote, rpc, rinv, tops, tidx, invoked>>
    /\ UNCHANGED contractVars
    /\ UNCHANGED serviceVars

\* updateTransactionState(op.correlation_id, 'PROCESSING')
TickSagaProcessing(t, ok) ==
    /\ tpc[t] = "sagaProcessing"
    /\ \/ ok /\ updateTransactionState(Op(t).cid, "PROCESSING", Unset, Unset) /\ TickGoto(t, "exec")
       \/ ~ok /\ saga' = saga /\ TickGoto(t, "catch")
    /\ UNCHANGED <<queue, dlq, mirror, rowLock, ledgerTx, recoveryWrote, rpc, rinv, tops, tidx, invoked>>
    /\ UNCHANGED contractVars
    /\ UNCHANGED serviceVars

\* retryEscrowRelease: UPDATE invoices SET escrow_status = 'released' WHERE
\* invoice_id = data.invoiceId, whatever data.stepsCompleted holds; the
\* ledger is not called. The update waits for the row lock of an open transaction.
retryEscrowRelease(data) ==
    /\ data.invoiceId \in Invoices => rowLock[data.invoiceId] = 0
    /\ mirror' = [i \in Invoices |-> IF i = data.invoiceId THEN "released" ELSE mirror[i]]
    /\ recoveryWrote' = [i \in Invoices |-> recoveryWrote[i] \/ i = data.invoiceId]

\* executeOperation(op.operation_data): true, or false (the handler caught a
\* store error), and false makes the loop body throw.
TickExecute(t, ok) ==
    /\ tpc[t] = "exec"
    /\ invoked' = [invoked EXCEPT ![t] = @ \cup {<<Op(t).id, Op(t).retry_count>>}]
    /\ \/ ok /\ retryEscrowRelease(Op(t).op) /\ TickGoto(t, "markCompleted")
       \/ ~ok /\ UNCHANGED <<mirror, recoveryWrote>> /\ TickGoto(t, "catch")
    /\ UNCHANGED <<saga, queue, dlq, rowLock, ledgerTx, rpc, rinv, tops, tidx>>
    /\ UNCHANGED contractVars
    /\ UNCHANGED serviceVars

\* UPDATE ... SET status = 'COMPLETED' WHERE id = op.id
TickMarkCompleted(t, ok) ==
    /\ tpc[t] = "markCompleted"
    /\ \/ ok /\ SetRowStatus(Op(t).id, "COMPLETED") /\ TickGoto(t, "sagaCompleted")
       \/ ~ok /\ queue' = queue /\ TickGoto(t, "catch")
    /\ UNCHANGED <<saga, dlq, mirror, rowLock, ledgerTx, recoveryWrote, rpc, rinv, tops, tidx, invoked>>
    /\ UNCHANGED contractVars
    /\ UNCHANGED serviceVars

\* updateTransactionState(op.correlation_id, 'COMPLETED')
TickSagaCompleted(t, ok) ==
    /\ tpc[t] = "sagaCompleted"
    /\ \/ ok /\ updateTransactionState(Op(t).cid, "COMPLETED", Unset, Unset) /\ TickGoto(t, "delete")
       \/ ~ok /\ saga' = saga /\ TickGoto(t, "catch")
    /\ UNCHANGED <<queue, dlq, mirror, rowLock, ledgerTx, recoveryWrote, rpc, rinv, tops, tidx, invoked>>
    /\ UNCHANGED contractVars
    /\ UNCHANGED serviceVars

\* DELETE FROM transaction_recovery_queue WHERE id = op.id
TickDelete(t, ok) ==
    /\ tpc[t] = "delete"
    /\ \/ ok /\ queue' = {r \in queue : r.id # Op(t).id} /\ TickNextOp(t)
       \/ ~ok /\ queue' = queue /\ TickGoto(t, "catch") /\ UNCHANGED <<tops, tidx, invoked>>
    /\ UNCHANGED <<saga, dlq, mirror, rowLock, ledgerTx, recoveryWrote, rpc, rinv>>
    /\ UNCHANGED contractVars
    /\ UNCHANGED serviceVars

\* catch: newRetryCount = op.retry_count + 1
NewRetryCount(op) == op.retry_count + 1

\* catch: if (newRetryCount >= op.max_retries)
RetriesExhausted(op) == NewRetryCount(op) >= op.max_retries

\* catch, else branch: addToRecoveryQueue(op.correlation_id, op.operation_data,
\* newRetryCount, error.message)
TickRequeue(t, ok) ==
    /\ tpc[t] = "catch"
    /\ ~RetriesExhausted(Op(t))
    /\ \/ ok /\ addToRecoveryQueue(Op(t).cid, Op(t).op, NewRetryCount(Op(t))) /\ TickNextOp(t)
       \/ ~ok /\ queue' = queue /\ TickAbort(t)
    /\ UNCHANGED <<saga, dlq, mirror, rowLock, ledgerTx, recoveryWrote, rpc, rinv>>
    /\ UNCHANGED contractVars
    /\ UNCHANGED serviceVars

\* moveToDLQ, first write: INSERT INTO dead_letter_queue
DlqRow(c, opData, retryCount, requiresCompensation) ==
    [cid |-> c, op |-> opData, retry_count |-> retryCount,
     requires_compensation |-> requiresCompensation,
     compensation_status |-> IF requiresCompensation THEN "PENDING" ELSE "NULL"]

\* The table grows without bound when the insert is repeated; the model keeps
\* its first MaxDlqRows rows.
DlqInserted(row) == IF Len(dlq) < MaxDlqRows THEN Append(dlq, row) ELSE dlq

MoveToDLQInsert(t, ok) ==
    /\ tpc[t] = "catch"
    /\ RetriesExhausted(Op(t))
    /\ \/ /\ ok
          /\ dlq' = DlqInserted(DlqRow(Op(t).cid, Op(t).op, NewRetryCount(Op(t)),
                                       shouldCompensate(Op(t).op)))
          /\ TickGoto(t, "dlqSaga") /\ UNCHANGED <<tops, tidx, invoked>>
       \/ ~ok /\ dlq' = dlq /\ TickAbort(t)
    /\ UNCHANGED <<saga, queue, mirror, rowLock, ledgerTx, recoveryWrote, rpc, rinv>>
    /\ UNCHANGED contractVars
    /\ UNCHANGED serviceVars

\* moveToDLQ, second write: updateTransactionState(correlationId, 'DLQ')
MoveToDLQSaga(t, ok) ==
    /\ tpc[t] = "dlqSaga"
    /\ \/ /\ ok
          /\ updateTransactionState(Op(t).cid, "DLQ", Unset, Unset)
          /\ TickGoto(t, "dlqDelete") /\ UNCHANGED <<tops, tidx, invoked>>
       \/ ~ok /\ saga' = saga /\ TickAbort(t)
    /\ UNCHANGED <<queue, dlq, mirror, rowLock, ledgerTx, recoveryWrote, rpc, rinv>>
    /\ UNCHANGED contractVars
    /\ UNCHANGED serviceVars

\* moveToDLQ, third write: DELETE FROM transaction_recovery_queue WHERE correlation_id = $1
MoveToDLQDelete(t, ok) ==
    /\ tpc[t] = "dlqDelete"
    /\ \/ ok /\ queue' = {r \in queue : r.cid # Op(t).cid} /\ TickNextOp(t)
       \/ ~ok /\ queue' = queue /\ TickAbort(t)
    /\ UNCHANGED <<saga, dlq, mirror, rowLock, ledgerTx, recoveryWrote, rpc, rinv>>
    /\ UNCHANGED contractVars
    /\ UNCHANGED serviceVars

processRecoveryQueue(t, ok) ==
    \/ TickSelect(t, ok)
    \/ TickMarkProcessing(t, ok)
    \/ TickSagaProcessing(t, ok)
    \/ TickExecute(t, ok)
    \/ TickMarkCompleted(t, ok)
    \/ TickSagaCompleted(t, ok)
    \/ TickDelete(t, ok)
    \/ TickRequeue(t, ok)
    \/ MoveToDLQInsert(t, ok)
    \/ MoveToDLQSaga(t, ok)
    \/ MoveToDLQDelete(t, ok)

\* Time passes until the next next_retry_at is reached: the minutes to the
\* earliest pending retry elapse for every row.
MinutesToNextRetry ==
    LET waits == {r.next_retry_in : r \in {q \in queue : q.next_retry_in > 0}}
    IN  CHOOSE d \in waits : \A e \in waits : d <= e

TimePasses ==
    /\ \E r \in queue : r.next_retry_in > 0
    /\ queue' = {[r EXCEPT !.next_retry_in = IF @ > MinutesToNextRetry
                                             THEN @ - MinutesToNextRetry ELSE 0] : r \in queue}
    /\ UNCHANGED <<saga, dlq, mirror, rowLock, ledgerTx, recoveryWrote, rpc, rinv, tpc, tops, tidx, invoked>>
    /\ UNCHANGED contractVars
    /\ UNCHANGED serviceVars

BackendInit ==
    /\ saga = [c \in CorrIds |-> NoSaga]
    /\ queue = {}
    /\ dlq = <<>>
    /\ mirror = [i \in Invoices |-> "funded"]
    /\ rowLock = [i \in Invoices |-> 0]
    /\ ledgerTx = [i \in Invoices |-> FALSE]
    /\ recoveryWrote = [i \in Invoices |-> FALSE]
    /\ rpc = [r \in Requests |-> "idle"]
    /\ rinv = [r \in Requests |-> "unknown"]
    /\ tpc = [t \in Ticks |-> "idle"]
    /\ tops = [t \in Ticks |-> <<>>]
    /\ tidx = [t \in Ticks |-> 0]
    /\ invoked = [t \in Ticks |-> {}]

BackendNext ==
    \/ \E r \in Requests, ok \in BOOLEAN : releaseEscrow(r, ok)
    \/ \E t \in Ticks, ok \in BOOLEAN : processRecoveryQueue(t, ok)
    \/ TimePasses

(***************************************************************************)
(* EscrowContract.sol: the ledger's escrow state machine.  A call that     *)
(* reverts changes nothing, so every require is a guard of its action.     *)
(* Callers are the recorded seller and buyer, the admin and the            *)
(* arbitrators; the buyer passes the compliance checks and sends the exact *)
(* payable amount.                                                         *)
(***************************************************************************)
MaxEscrows == 2
MaxCreations == 2
MaxTime == 2
MaxArbitrators == 2

QuorumPercentage == 51
InitialFeePercentage == 50
MaxFeePercentage == 1000
BasisPoints == 10000

EscrowIds == 1..MaxEscrows
ArbitratorPool == 1..MaxArbitrators
ZeroAddress == "0x0"
Tokens == {ZeroAddress, "erc20"}
Amounts == {100, 1000}
Durations == {1}
FeeChoices == {0, InitialFeePercentage}

\* A mapping slot that was never written, or was deleted.
NoEscrow ==
    [seller |-> ZeroAddress, buyer |-> ZeroAddress, amount |-> 0, token |-> ZeroAddress,
     status |-> "Created", sellerConfirmed |-> FALSE, buyerConfirmed |-> FALSE,
     disputeRaised |-> FALSE, expiresAt |-> 0, hasNft |-> FALSE, feeAmount |-> 0]

NoVoting == [snapshotArbitratorCount |-> 0, votesForBuyer |-> 0, votesForSeller |-> 0,
             resolved |-> FALSE]

NoRelease == [via |-> "none", id |-> 0, toTreasury |-> 0, toWinner |-> 0, winner |-> "none",
              recorded |-> 0, status |-> "Created", transfers |-> <<>>]

\* One transfer of a releasing transaction, and the NFT transfer an escrow
\* with collateral adds.
Transfer(what, to) == [what |-> what, to |-> to]
NftTransfer(e, to) == IF e.hasNft THEN <<Transfer("nft", to)>> ELSE <<>>

\* (10000 + feePercentage - 1) / feePercentage, and 1 when there is no fee.
CalculatedMinimum(fee) == IF fee > 0 THEN (BasisPoints + fee - 1) \div fee ELSE 1

CalculatedFeePerCent(amount, fee) == (amount * fee) \div 100
CalculatedFee(amount, fee) == (amount * fee) \div BasisPoints

setFeePercentage(fee) ==
    /\ fee <= MaxFeePercentage
    /\ feePercentage' = fee
    /\ minimumEscrowAmount' = CalculatedMinimum(fee)
    /\ UNCHANGED <<escrows, disputeVotings, hasVoted, arbitrators, now, held, nftHolder,
                   deposited, paidOut, lastRelease, creations>>
    /\ UNCHANGED confirmCalls
    /\ UNCHANGED backendVars
    /\ UNCHANGED serviceVars

createEscrow(id, amount, token, duration, nft) ==
    /\ creations < MaxCreations
    /\ escrows[id].seller = ZeroAddress
    /\ amount >= minimumEscrowAmount
    /\ CalculatedFee(amount, feePercentage) > 0
    /\ nft => nftHolder[id] = "seller"
    /\ nftHolder' = IF nft THEN [nftHolder EXCEPT ![id] = "escrow"] ELSE nftHolder
    /\ escrows' = [escrows EXCEPT ![id] =
            [seller |-> "seller", buyer |-> "buyer", amount |-> amount, token |-> token,
             status |-> "Created", sellerConfirmed |-> FALSE, buyerConfirmed |-> FALSE,
             disputeRaised |-> FALSE, expiresAt |-> now + duration, hasNft |-> nft,
             feeAmount |-> CalculatedFee(amount, feePercentage)]]
    /\ creations' = creations + 1
    /\ UNCHANGED <<disputeVotings, hasVoted, arbitrators, feePercentage, minimumEscrowAmount,
                   now, held, deposited, paidOut, lastRelease>>
    /\ confirmCalls' = [confirmCalls EXCEPT ![id] = {}]
    /\ UNCHANGED backendVars
    /\ UNCHANGED serviceVars

\* discountRate is 0 in every escrow createEscrow writes.
PayableAmount(e) == e.amount

deposit(id) ==
    LET e == escrows[id] IN
    /\ e.buyer = "buyer"
    /\ ~e.buyerConfirmed
    /\ e.status = "Created"
    /\ now <= e.expiresAt
    /\ held' = [held EXCEPT ![e.token] = @ + PayableAmount(e)]
    /\ deposited' = [deposited EXCEPT ![id] = @ + PayableAmount(e)]
    /\ escrows' = [escrows EXCEPT ![id] =
            [e EXCEPT !.amount = PayableAmount(e), !.buyerConfirmed = TRUE,
                      !.status = "Funded"]]
    /\ UNCHANGED <<disputeVotings, hasVoted, arbitrators, feePercentage, minimumEscrowAmount,
                   now, nftHolder, paidOut, lastRelease, creations>>
    /\ UNCHANGED confirmCalls
    /\ UNCHANGED backendVars
    /\ UNCHANGED serviceVars

\* _releaseFunds of an escrow whose record is e: IERC20(token).safeTransfer
\* reverts when the token is the native one (address 0 has no code) or the
\* balance is short, safeTransferFrom when the contract does not hold the NFT.
\* It writes neither the status nor the fee.
ReleaseFundsReverts(id, e) ==
    \/ e.token = ZeroAddress
    \/ held[e.token] < e.amount
    \/ e.hasNft /\ nftHolder[id] # "escrow"

ReleaseFunds(id, e) ==
    /\ held' = [held EXCEPT ![e.token] = @ - e.amount]
    /\ paidOut' = [paidOut EXCEPT ![id] = @ + e.amount]
    /\ nftHolder' = IF e.hasNft THEN [nftHolder EXCEPT ![id] = "buyer"] ELSE nftHolder
    /\ lastRelease' = [via |-> "confirmRelease", id |-> id, toTreasury |-> 0,
                       toWinner |-> e.amount, winner |-> "seller", recorded |-> e.amount,
                       status |-> e.status,
                       transfers |-> <<Transfer("funds", "seller")>> \o NftTransfer(e, "buyer")]

Confirmed(e, caller) ==
    LET expired == IF now > e.expiresAt /\ e.status # "Disputed"
                   THEN [e EXCEPT !.status = "Expired"] ELSE e
    IN  IF caller = e.seller THEN [expired EXCEPT !.sellerConfirmed = TRUE]
                             ELSE [expired EXCEPT !.buyerConfirmed = TRUE]

confirmRelease(id, caller) ==
    LET e == escrows[id]
        c == Confirmed(e, caller)
    IN  /\ caller = e.seller \/ caller = e.buyer
        /\ e.status = "Funded"
        /\ escrows' = [escrows EXCEPT ![id] = c]
        /\ IF c.sellerConfirmed /\ c.buyerConfirmed
           THEN ~ReleaseFundsReverts(id, c) /\ ReleaseFunds(id, c)
           ELSE UNCHANGED <<held, paidOut, nftHolder, lastRelease>>
        /\ UNCHANGED <<disputeVotings, hasVoted, arbitrators, feePercentage,
                       minimumEscrowAmount, now, deposited, creations>>
        /\ confirmCalls' = [confirmCalls EXCEPT ![id] = @ \cup {caller}]
        /\ UNCHANGED backendVars
        /\ UNCHANGED serviceVars

\* The three requires of reclaimExpiredFunds.
ReclaimAllowedBeforeExpiry(e, caller) ==
    /\ caller = e.buyer
    /\ e.status \in {"Funded", "Expired"}
ReclaimAllowed(e, caller) ==
    /\ caller = e.buyer
    /\ e.status \in {"Funded", "Expired"}
    /\ now > e.expiresAt

reclaimExpiredFunds(id, caller) ==
    LET e == escrows[id] IN
    /\ ReclaimAllowed(e, caller)
    /\ held[e.token] >= e.amount
    /\ e.hasNft => nftHolder[id] = "escrow"
    /\ escrows' = [escrows EXCEPT ![id] = [e EXCEPT !.status = "Expired"]]
    /\ held' = [held EXCEPT ![e.token] = @ - e.amount]
    /\ paidOut' = [paidOut EXCEPT ![id] = @ + e.amount]
    /\ nftHolder' = IF e.hasNft THEN [nftHolder EXCEPT ![id] = "seller"] ELSE nftHolder
    /\ UNCHANGED <<disputeVotings, hasVoted, arbitrators, feePercentage, minimumEscrowAmount,
                   now, deposited, lastRelease, creations>>
    /\ UNCHANGED confirmCalls
    /\ UNCHANGED backendVars
    /\ UNCHANGED serviceVars

raiseDispute(id, caller) ==
    LET e == escrows[id] IN
    /\ caller = e.seller \/ caller = e.buyer
    /\ e.status = "Funded"
    /\ ~e.disputeRaised
    /\ Cardinality(arbitrators) > 0
    /\ escrows' = [escrows EXCEPT ![id] = [e EXCEPT !.disputeRaised = TRUE,
                                                     !.status = "Disputed"]]
    /\ disputeVotings' = [disputeVotings EXCEPT ![id] =
            [snapshotArbitratorCount |-> Cardinality(arbitrators), votesForBuyer |-> 0,
             votesForSeller |-> 0, resolved |-> FALSE]]
    /\ UNCHANGED <<hasVoted, arbitrators, feePercentage, minimumEscrowAmount, now, held,
                   nftHolder, deposited, paidOut, lastRelease, creations>>
    /\ UNCHANGED confirmCalls
    /\ UNCHANGED backendVars
    /\ UNCHANGED serviceVars

\* uint256 payoutAmount = amount; if (fee > 0) payoutAmount -= fee;
PayoutMinusNothing(amount, fee) == amount
PayoutAmount(amount, fee) == IF fee > 0 THEN amount - fee ELSE amount

\* _resolveEscrow on the record e (the caller may have written it first):
\* a checked subtraction that underflows, a transfer the balance does not
\* cover and a transfer of an NFT the contract does not hold revert.
ResolveEscrowReverts(id, e) ==
    \/ e.status # "Disputed"
    \/ e.feeAmount > e.amount
    \/ held[e.token] < e.amount
    \/ e.hasNft /\ nftHolder[id] # "escrow"

ResolveEscrow(id, e, sellerWins, via) ==
    /\ held' = [held EXCEPT ![e.token] =
                    @ - (e.feeAmount + PayoutAmount(e.amount, e.feeAmount))]
    /\ paidOut' = [paidOut EXCEPT ![id] =
                    @ + e.feeAmount + PayoutAmount(e.amount, e.feeAmount)]
    /\ nftHolder' = IF e.hasNft
                    THEN [nftHolder EXCEPT ![id] = IF sellerWins THEN "buyer" ELSE "seller"]
                    ELSE nftHolder
    /\ lastRelease' = [via |-> via, id |-> id, toTreasury |-> e.feeAmount,
                       toWinner |-> PayoutAmount(e.amount, e.feeAmount),
                       winner |-> IF sellerWins THEN "seller" ELSE "buyer",
                       recorded |-> e.amount, status |-> "Released",
                       transfers |->
                           (IF e.feeAmount > 0 THEN <<Transfer("fee", "treasury")>> ELSE <<>>)
                           \o <<Transfer("funds", IF sellerWins THEN "seller" ELSE "buyer")>>
                           \o NftTransfer(e, IF sellerWins THEN "buyer" ELSE "seller")]
    /\ escrows' = [escrows EXCEPT ![id] = NoEscrow]
    /\ confirmCalls' = [confirmCalls EXCEPT ![id] = {}]

resolveDispute(id, sellerWins) ==
    LET e == escrows[id] IN
    /\ e.disputeRaised
    /\ e.status = "Disputed"
    /\ ~ResolveEscrowReverts(id, e)
    /\ ResolveEscrow(id, e, sellerWins, "resolveDispute")
    /\ UNCHANGED <<disputeVotings, hasVoted, arbitrators, feePercentage, minimumEscrowAmount,
                   now, deposited, creations>>
    /\ UNCHANGED backendVars
    /\ UNCHANGED serviceVars

\* (snapshot * quorumPercentage) / 100, and 1 when that is 0.
QuorumRequired(snapshot) ==
    LET q == (snapshot * QuorumPercentage) \div 100 IN IF q = 0 THEN 1 ELSE q

\* bool sellerWins = voting.votesForSeller > voting.votesForBuyer;
SellerWinsOnTie(v) == v.votesForSeller >= v.votesForBuyer
SellerWins(v) == v.votesForSeller > v.votesForBuyer

VotedAtLiveCount(v, liveCount, voteForBuyer) ==
    LET live == [v EXCEPT !.snapshotArbitratorCount = liveCount]
    IN  IF voteForBuyer THEN [live EXCEPT !.votesForBuyer = @ + 1]
                        ELSE [live EXCEPT !.votesForSeller = @ + 1]

Voted(v, liveCount, voteForBuyer) ==
    LET shrunk == IF liveCount < v.snapshotArbitratorCount
                  THEN [v EXCEPT !.snapshotArbitratorCount = liveCount] ELSE v
    IN  IF voteForBuyer THEN [shrunk EXCEPT !.votesForBuyer = @ + 1]
                        ELSE [shrunk EXCEPT !.votesForSeller = @ + 1]

\* voteOnDispute followed by _checkAndResolveVoting.
voteOnDispute(id, arbitrator, voteForBuyer) ==
    LET e == escrows[id]
        v == Voted(disputeVotings[id], Cardinality(arbitrators), voteForBuyer)
    IN  /\ arbitrator \in arbitrators
        /\ e.status = "Disputed"
        /\ ~disputeVotings[id].resolved
        /\ arbitrator \notin hasVoted[id]
        /\ hasVoted' = [hasVoted EXCEPT ![id] = @ \cup {arbitrator}]
        /\ IF v.votesForBuyer + v.votesForSeller >= QuorumRequired(v.snapshotArbitratorCount)
           THEN /\ disputeVotings' = [disputeVotings EXCEPT ![id] = [v EXCEPT !.resolved = TRUE]]
                /\ ~ResolveEscrowReverts(id, e)
                /\ ResolveEscrow(id, e, SellerWins(v), "voteOnDispute")
           ELSE /\ disputeVotings' = [disputeVotings EXCEPT ![id] = v]
                /\ UNCHANGED <<escrows, held, paidOut, nftHolder, lastRelease, confirmCalls>>
        /\ UNCHANGED <<arbitrators, feePercentage, minimumEscrowAmount, now, deposited,
                       creations>>
        /\ UNCHANGED backendVars
        /\ UNCHANGED serviceVars

safeEscape(id, sellerWins) ==
    LET e == escrows[id]
        v == disputeVotings[id]
    IN  /\ e.status = "Disputed"
        /\ ~v.resolved
        /\ Cardinality(arbitrators) < (v.snapshotArbitratorCount * QuorumPercentage) \div 100
        /\ disputeVotings' = [disputeVotings EXCEPT ![id] = [v EXCEPT !.resolved = TRUE]]
        /\ ~ResolveEscrowReverts(id, e)
        /\ ResolveEscrow(id, e, sellerWins, "safeEscape")
        /\ UNCHANGED <<hasVoted, arbitrators, feePercentage, minimumEscrowAmount, now,
                       deposited, creations>>
        /\ UNCHANGED backendVars
        /\ UNCHANGED serviceVars

\* The registry's governance adds and removes arbitrators.
addArbitrator(a) ==
    /\ a \notin arbitrators
    /\ arbitrators' = arbitrators \cup {a}
    /\ UNCHANGED <<escrows, disputeVotings, hasVoted, feePercentage, minimumEscrowAmount, now,
                   held, nftHolder, deposited, paidOut, lastRelease, creations>>
    /\ UNCHANGED confirmCalls
    /\ UNCHANGED backendVars
    /\ UNCHANGED serviceVars

removeArbitrator(a) ==
    /\ a \in arbitrators
    /\ arbitrators' = arbitrators \ {a}
    /\ UNCHANGED <<escrows, disputeVotings, hasVoted, feePercentage, minimumEscrowAmount, now,
                   held, nftHolder, deposited, paidOut, lastRelease, creations>>
    /\ UNCHANGED confirmCalls
    /\ UNCHANGED backendVars
    /\ UNCHANGED serviceVars

\* A later block.
AdvanceTime ==
    /\ now < MaxTime
    /\ now' = now + 1
    /\ UNCHANGED <<escrows, disputeVotings, hasVoted, arbitrators, feePercentage,
                   minimumEscrowAmount, held, nftHolder, deposited, paidOut, lastRelease,
                   creations>>
    /\ UNCHANGED confirmCalls
    /\ UNCHANGED backendVars
    /\ UNCHANGED serviceVars

ContractInit ==
    /\ escrows = [id \in EscrowIds |-> NoEscrow]
    /\ disputeVotings = [id \in EscrowIds |-> NoVoting]
    /\ hasVoted = [id \in EscrowIds |-> {}]
    /\ arbitrators = {}
    /\ feePercentage = InitialFeePercentage
    /\ minimumEscrowAmount = CalculatedMinimum(InitialFeePercentage)
    /\ now = 0
    /\ held = [t \in Tokens |-> 0]
    /\ nftHolder = [id \in EscrowIds |-> "seller"]
    /\ deposited = [id \in EscrowIds |-> 0]
    /\ paidOut = [id \in EscrowIds |-> 0]
    /\ lastRelease = NoRelease
    /\ creations = 0
    /\ confirmCalls = [id \in EscrowIds |-> {}]

ContractNext ==
    \/ \E fee \in FeeChoices : setFeePercentage(fee)
    \/ \E id \in EscrowIds, amount \in Amounts, token \in Tokens, duration \in Durations,
          nft \in BOOLEAN : createEscrow(id, amount, token, duration, nft)
    \/ \E id \in EscrowIds : deposit(id)
    \/ \E id \in EscrowIds, caller \in {"seller", "buyer"} : confirmRelease(id, caller)
    \/ \E id \in EscrowIds, caller \in {"seller", "buyer"} : reclaimExpiredFunds(id, caller)
    \/ \E id \in EscrowIds, caller \in {"seller", "buyer"} : raiseDispute(id, caller)
    \/ \E id \in EscrowIds, sellerWins \in BOOLEAN : resolveDispute(id, sellerWins)
    \/ \E id \in EscrowIds, a \in ArbitratorPool, voteForBuyer \in BOOLEAN :
          voteOnDispute(id, a, voteForBuyer)
    \/ \E id \in EscrowIds, sellerWins \in BOOLEAN : safeEscape(id, sellerWins)
    \/ \E a \in ArbitratorPool : addArbitrator(a)
    \/ \E a \in ArbitratorPool : removeArbitrator(a)
    \/ AdvanceTime

CodecInit == codecUuid = Unset /\ codecWord = Unset /\ codecOut = Unset

Routes == {"raiseDispute", "resolveDispute", "approve"}

RouteInit ==
    /\ hpc = [h \in Routes |-> "idle"]
    /\ ledgerStatus = [i \in Invoices |-> "Funded"]

NoSummaryRow ==
    [status |-> "absent", total_invoices |-> 0, matched_count |-> 0, discrepancy_count |-> 0,
     missing_chain_count |-> 0, missing_db_count |-> 0, total_discrepancy_amount |-> 0]

NoChainData == [status |-> "unread", chainStatus |-> "unread", amount |-> 0]

\* const summary = { matchedCount: 0, ..., status: 'completed' }
NewSummary ==
    [matchedCount |-> 0, discrepancyCount |-> 0, missingChainCount |-> 0,
     missingDbCount |-> 0, totalDiscrepancyAmount |-> 0, status |-> "completed"]

\* The locals and tables of a run that has not read anything yet.
ReconFresh ==
    /\ logs = <<>>
    /\ summaryRow = NoSummaryRow
    /\ totalInvoices = 0
    /\ offset = 0
    /\ batch = <<>>
    /\ bidx = 0
    /\ chainData = NoChainData
    /\ summary = NewSummary
    /\ returned = "none"
    /\ invoiceFaults = {}
    /\ engineFault = FALSE

\* No reconciliation run is started.
ReconIdle ==
    /\ invoices = <<>>
    /\ chain = <<>>
    /\ rcpc = "off"
    /\ ReconFresh

ServiceInit == CodecInit /\ RouteInit /\ ReconIdle

vars == <<backendVars, contractVars, serviceVars>>
Init == BackendInit /\ ContractInit /\ ServiceInit

\* The saga and recovery pipeline of the backend.
Next == BackendNext
Spec == Init /\ [][Next]_vars

\* The escrow contract on the ledger.
EscrowNext == ContractNext
EscrowSpec == Init /\ [][EscrowNext]_vars

(***************************************************************************)
(* The recovery worker alone (nobody calls POST /recovery/trigger), under  *)
(* the scheduling the code has: setInterval fires every 30 seconds, every  *)
(* awaited call returns, time passes, and no store call keeps raising for  *)
(* ever (a step that is tried again and again succeeds at some point).     *)
(***************************************************************************)
WorkerNext ==
    \/ \E r \in Requests, ok \in BOOLEAN : releaseEscrow(r, ok)
    \/ \E ok \in BOOLEAN : processRecoveryQueue("worker", ok)
    \/ TimePasses

WorkerFairness ==
    /\ WF_vars(TimePasses)
    /\ \A r \in Requests : WF_vars(\E ok \in BOOLEAN : releaseEscrow(r, ok))
    /\ WF_vars(\E ok \in BOOLEAN : processRecoveryQueue("worker", ok))
    /\ SF_vars(TickMarkProcessing("worker", TRUE))
    /\ SF_vars(TickSagaProcessing("worker", TRUE))
    /\ SF_vars(TickExecute("worker", TRUE))
    /\ SF_vars(TickMarkCompleted("worker", TRUE))
    /\ SF_vars(TickSagaCompleted("worker", TRUE))
    /\ SF_vars(TickDelete("worker", TRUE))
    /\ SF_vars(TickRequeue("worker", TRUE))
    /\ SF_vars(MoveToDLQInsert("worker", TRUE))
    /\ SF_vars(MoveToDLQSaga("worker", TRUE))
    /\ SF_vars(MoveToDLQDelete("worker", TRUE))

FairSpec == Init /\ [][WorkerNext]_vars /\ WorkerFairness

(***************************************************************************)
(* addToRecoveryQueue on its own: once a saga exists, any caller may       *)
(* enqueue any operation data with any retry count.                        *)
(***************************************************************************)
MaxRetryCount == 8

OperationTypes == {"ESCROW_RELEASE", "FINANCING_PIPELINE", "EVENT_PROCESSING"}
OperationData ==
    {[operationType |-> ty, invoiceId |-> "inv1", stepsCompleted |-> st] :
        ty \in OperationTypes, st \in SUBSET {"BLOCKCHAIN_TX", "KATANA_LIQUIDITY"}}

Enqueue(c, opData, retryCount) ==
    /\ saga[c] # NoSaga
    /\ addToRecoveryQueue(c, opData, retryCount)
    /\ UNCHANGED <<saga, dlq, mirror, rowLock, ledgerTx, recoveryWrote, rpc, rinv, tpc, tops,
                   tidx, invoked>>
    /\ UNCHANGED contractVars
    /\ UNCHANGED serviceVars

EnqueueNext ==
    \/ \E r \in Requests : ReleaseStart(r, TRUE)
    \/ \E c \in CorrIds, opData \in OperationData, retryCount \in 0..MaxRetryCount :
          Enqueue(c, opData, retryCount)

EnqueueSpec == Init /\ [][EnqueueNext]_vars

(***************************************************************************)
(* One dispute and a registry of up to MaxVoters arbitrators: the escrow   *)
(* of invoice 1 was created with 1000 of the ERC20 token at the initial    *)
(* fee and funded by its buyer; the registry enrols and dismisses          *)
(* arbitrators one at a time.                                              *)
(***************************************************************************)
MaxVoters == 10

VoterPool == 1..MaxVoters
DisputeId == 1
DisputeAmount == 1000

FundedEscrow ==
    [seller |-> "seller", buyer |-> "buyer", amount |-> DisputeAmount, token |-> "erc20",
     status |-> "Funded", sellerConfirmed |-> FALSE, buyerConfirmed |-> TRUE,
     disputeRaised |-> FALSE, expiresAt |-> 1, hasNft |-> FALSE,
     feeAmount |-> CalculatedFee(DisputeAmount, InitialFeePercentage)]

VotingInit ==
    /\ BackendInit
    /\ ServiceInit
    /\ escrows = [id \in EscrowIds |-> IF id = DisputeId THEN FundedEscrow ELSE NoEscrow]
    /\ disputeVotings = [id \in EscrowIds |-> NoVoting]
    /\ hasVoted = [id \in EscrowIds |-> {}]
    /\ \E n \in 0..MaxVoters : arbitrators = 1..n
    /\ feePercentage = InitialFeePercentage
    /\ minimumEscrowAmount = CalculatedMinimum(InitialFeePercentage)
    /\ now = 0
    /\ held = [t \in Tokens |-> IF t = "erc20" THEN DisputeAmount ELSE 0]
    /\ nftHolder = [id \in EscrowIds |-> "seller"]
    /\ deposited = [id \in EscrowIds |-> IF id = DisputeId THEN DisputeAmount ELSE 0]
    /\ paidOut = [id \in EscrowIds |-> 0]
    /\ lastRelease = NoRelease
    /\ creations = 1
    /\ confirmCalls = [id \in EscrowIds |-> {}]

\* The registry here enrols arbitrator n + 1 after n and dismisses the latest.
addNextArbitrator(a) == a = Cardinality(arbitrators) + 1 /\ addArbitrator(a)
removeLastArbitrator(a) == a = Cardinality(arbitrators) /\ removeArbitrator(a)

VotingNext ==
    \/ \E caller \in {"seller", "buyer"} : raiseDispute(DisputeId, caller)
    \/ \E a \in VoterPool, voteForBuyer \in BOOLEAN : voteOnDispute(DisputeId, a, voteForBuyer)
    \/ \E sellerWins \in BOOLEAN : safeEscape(DisputeId, sellerWins)
    \/ \E a \in VoterPool : addNextArbitrator(a)
    \/ \E a \in VoterPool : removeLastArbitrator(a)

VotingSpec == VotingInit /\ [][VotingNext]_vars

(***************************************************************************)
(* The fee configuration and createEscrow alone: the admin sets the fee    *)
(* and the minimum amount to any of FeeInputs and MinimumInputs and        *)
(* creates escrows of the amounts of AmountInputs.                         *)
(***************************************************************************)
FeeInputs == {0, 1, 3, 50, 999, 1000, 1001}
MinimumInputs == {0, 1, 10, 200, 3334, 10000}
AmountInputs == {1, 9, 10, 11, 199, 200, 3333, 3334, 9999, 10000}

\* setMinimumEscrowAmount: the new minimum is positive and not below the
\* minimum calculated from the current fee.
setMinimumEscrowAmount(minimum) ==
    /\ minimum > 0
    /\ minimum >= CalculatedMinimum(feePercentage)
    /\ minimumEscrowAmount' = minimum
    /\ UNCHANGED <<escrows, disputeVotings, hasVoted, arbitrators, feePercentage, now, held,
                   nftHolder, deposited, paidOut, lastRelease, creations, confirmCalls>>
    /\ UNCHANGED backendVars
    /\ UNCHANGED serviceVars

FeeNext ==
    \/ \E fee \in FeeInputs : setFeePercentage(fee)
    \/ \E minimum \in MinimumInputs : setMinimumEscrowAmount(minimum)
    \/ \E id \in EscrowIds, amount \in AmountInputs : createEscrow(id, amount, "erc20", 1, FALSE)

FeeSpec == Init /\ [][FeeNext]_vars

(***************************************************************************)
(* The invoice-id codec.  Strings are sequences of one-character strings.  *)
(* A UUID is five groups of 8, 4, 4, 4 and 12 hexadecimal digits joined by *)
(* dashes; the inputs take one digit of UuidDigits per group.              *)
(***************************************************************************)
UuidDigits == {"0", "7", "c"}

Repeat(ch, n) == [i \in 1..n |-> ch]
Dash == <<"-">>

Uuid(a, b, c, d, e) ==
    Repeat(a, 8) \o Dash \o Repeat(b, 4) \o Dash \o Repeat(c, 4) \o Dash \o Repeat(d, 4)
        \o Dash \o Repeat(e, 12)

UuidInputs == {Uuid(a, b, c, d, e) : a, b, c, d, e \in UuidDigits}

\* String.prototype.toLowerCase on the characters that occur.
LowerChar(ch) ==
    CASE ch = "A" -> "a" [] ch = "B" -> "b" [] ch = "C" -> "c" [] ch = "D" -> "d"
      [] ch = "E" -> "e" [] ch = "F" -> "f" [] OTHER -> ch
toLowerCase(str) == [i \in 1..Len(str) |-> LowerChar(str[i])]

\* uuid.replace(/-/g, '')
IsNotDash(ch) == ch # "-"
WithoutDashes(str) == SelectSeq(str, IsNotDash)

\* ethers.zeroPadValue(hex, length): the value's bytes with zero bytes added
\* on the left up to length bytes, as a lower-case 0x string.
zeroPadValue(digits, length) == Repeat("0", 2 * length - Len(digits)) \o toLowerCase(digits)

uuidToBytes32(uuid) == <<"0", "x">> \o zeroPadValue(WithoutDashes(uuid), 32)

\* str.padEnd(n, '0')
padEnd(str, n) == IF Len(str) >= n THEN str ELSE str \o Repeat("0", n - Len(str))

\* hex.match(/.{1,8}/g): the string cut into pieces of 8 characters.
Chunks(str) == [k \in 1..((Len(str) + 7) \div 8) |->
                    SubSeq(str, 8 * (k - 1) + 1, Min(8 * k, Len(str)))]

\* The map callback: the first piece as it is, every other piece with a
\* dash after its fourth character.
UuidPart(part, i) ==
    IF i = 0 THEN part ELSE SubSeq(part, 1, 4) \o Dash \o SubSeq(part, 5, Len(part))

RECURSIVE Join(_, _)
Join(parts, k) ==
    IF k = 0 THEN <<>>
    ELSE IF k = 1 THEN parts[1]
    ELSE Join(parts, k - 1) \o Dash \o parts[k]

bytes32ToUuid(bytes32) ==
    LET hex == padEnd(SubSeq(bytes32, 3, Len(bytes32)), 32)
        parts == Chunks(hex)
        mapped == [k \in 1..Len(parts) |-> UuidPart(parts[k], k - 1)]
    IN  toLowerCase(Join(mapped, Len(mapped)))

Encode(uuid) ==
    /\ codecUuid = Unset
    /\ codecUuid' = uuid
    /\ codecWord' = uuidToBytes32(uuid)
    /\ codecOut' = codecOut
    /\ UNCHANGED routeVars
    /\ UNCHANGED reconVars
    /\ UNCHANGED backendVars
    /\ UNCHANGED contractVars

Decode ==
    /\ codecUuid # Unset
    /\ codecOut = Unset
    /\ codecOut' = bytes32ToUuid(codecWord)
    /\ UNCHANGED <<codecUuid, codecWord>>
    /\ UNCHANGED routeVars
    /\ UNCHANGED reconVars
    /\ UNCHANGED backendVars
    /\ UNCHANGED contractVars

CodecNext ==
    \/ \E uuid \in UuidInputs : Encode(uuid)
    \/ Decode

CodecSpec == Init /\ [][CodecNext]_vars

(***************************************************************************)
(* raiseDispute, resolveDispute (controllers) and POST /:invoiceId/approve *)
(* (escrow routes), each called once for invoice inv1.  A handler opens a  *)
(* transaction, selects the invoice row FOR UPDATE, checks escrow_status,  *)
(* calls the ledger, writes the mirror and commits; its catch block rolls  *)
(* back.  The ledger accepts raiseDispute on a Funded escrow and           *)
(* resolveDispute on a Disputed one, which it then deletes.                *)
(***************************************************************************)
RouteInvoice == "inv1"

\* The row lock's holders are numbered after the releaseEscrow requests.
LockHolder(h) ==
    CASE h = "raiseDispute" -> MaxSagas + 1
      [] h = "resolveDispute" -> MaxSagas + 2
      [] h = "approve" -> MaxSagas + 3

sagaVars == <<saga, queue, dlq, ledgerTx, recoveryWrote, rpc, rinv, tpc, tops, tidx, invoked>>

RouteGoto(h, pc) == hpc' = [hpc EXCEPT ![h] = pc]

\* BEGIN; SELECT * FROM invoices WHERE invoice_id = $1 FOR UPDATE, and the
\* check of escrow_status that follows; accepted tells whether it passes.
RouteFetch(h, ok, accepted) ==
    /\ hpc[h] = "idle"
    /\ \/ /\ ok
          /\ rowLock[RouteInvoice] = 0
          /\ rowLock' = [rowLock EXCEPT ![RouteInvoice] = LockHolder(h)]
          /\ RouteGoto(h, IF accepted THEN "ledger" ELSE "catch")
       \/ ~ok /\ rowLock' = rowLock /\ RouteGoto(h, "catch")
    /\ UNCHANGED <<mirror, ledgerStatus>>
    /\ UNCHANGED sagaVars
    /\ UNCHANGED contractVars
    /\ UNCHANGED codecVars
    /\ UNCHANGED reconVars

\* catch: ROLLBACK gives the row lock back.
RouteRollback(h) ==
    /\ hpc[h] = "catch"
    /\ rowLock' = [i \in Invoices |-> IF rowLock[i] = LockHolder(h) THEN 0 ELSE rowLock[i]]
    /\ RouteGoto(h, "done")
    /\ UNCHANGED <<mirror, ledgerStatus>>
    /\ UNCHANGED sagaVars
    /\ UNCHANGED contractVars
    /\ UNCHANGED codecVars
    /\ UNCHANGED reconVars

\* UPDATE invoices SET escrow_status = status; COMMIT.
RouteCommit(h, ok, status) ==
    /\ hpc[h] = "commit"
    /\ \/ /\ ok
          /\ mirror' = [mirror EXCEPT ![RouteInvoice] = status]
          /\ rowLock' = [rowLock EXCEPT ![RouteInvoice] = 0]
          /\ RouteGoto(h, "done")
       \/ ~ok /\ UNCHANGED <<mirror, rowLock>> /\ RouteGoto(h, "catch")
    /\ UNCHANGED ledgerStatus
    /\ UNCHANGED sagaVars
    /\ UNCHANGED contractVars
    /\ UNCHANGED codecVars
    /\ UNCHANGED reconVars

\* The ledger call and tx.wait(): it is mined when the ledger's status is
\* the required one, and the wait may raise after it was mined.
RouteLedgerCall(h, ok, required, after) ==
    /\ hpc[h] = "ledger"
    /\ \/ /\ ok /\ ledgerStatus[RouteInvoice] = required
          /\ ledgerStatus' = [ledgerStatus EXCEPT ![RouteInvoice] = after]
          /\ RouteGoto(h, "commit")
       \/ /\ ~ok /\ ledgerStatus[RouteInvoice] = required
          /\ ledgerStatus' = [ledgerStatus EXCEPT ![RouteInvoice] = after]
          /\ RouteGoto(h, "catch")
       \/ ~ok /\ ledgerStatus' = ledgerStatus /\ RouteGoto(h, "catch")
    /\ UNCHANGED <<mirror, rowLock>>
    /\ UNCHANGED sagaVars
    /\ UNCHANGED contractVars
    /\ UNCHANGED codecVars
    /\ UNCHANGED reconVars

raiseDisputeRoute(ok) ==
    \/ RouteFetch("raiseDispute", ok, mirror[RouteInvoice] # "disputed")
    \/ RouteLedgerCall("raiseDispute", ok, "Funded", "Disputed")
    \/ RouteCommit("raiseDispute", ok, "disputed")
    \/ ok /\ RouteRollback("raiseDispute")

resolveDisputeRoute(ok, sellerWins) ==
    \/ sellerWins /\ RouteFetch("resolveDispute", ok, mirror[RouteInvoice] = "disputed")
    \/ sellerWins /\ RouteLedgerCall("resolveDispute", ok, "Disputed", "None")
    \/ RouteCommit("resolveDispute", ok,
                   IF sellerWins THEN "resolved_seller_wins" ELSE "resolved_buyer_wins")
    \/ ok /\ sellerWins /\ RouteRollback("resolveDispute")

\* getMultiSigApprovals, addMultiSigApproval, tx.wait(), getMultiSigApprovals:
\* the approval is recorded and the threshold is reached (full) or not.
\* The ledger releases the escrow itself when the threshold is reached.
ApproveLedgerCall(ok, full) ==
    /\ hpc["approve"] = "ledger"
    /\ \/ /\ ok
          /\ RouteGoto("approve", IF full THEN "commitFull" ELSE "commit")
          /\ ledgerStatus' = IF full THEN [ledgerStatus EXCEPT ![RouteInvoice] = "Released"]
                                      ELSE ledgerStatus
       \/ ~ok /\ full /\ RouteGoto("approve", "catch") /\ ledgerStatus' = ledgerStatus
    /\ UNCHANGED <<mirror, rowLock>>
    /\ UNCHANGED sagaVars
    /\ UNCHANGED contractVars
    /\ UNCHANGED codecVars
    /\ UNCHANGED reconVars

\* COMMIT: the transaction wrote nothing; the row lock is given back.
ApproveCommit(ok) ==
    /\ hpc["approve"] \in {"commit", "commitFull"}
    /\ \/ /\ ok
          /\ rowLock' = [rowLock EXCEPT ![RouteInvoice] = 0]
          /\ RouteGoto("approve", IF hpc["approve"] = "commitFull" THEN "released" ELSE "done")
       \/ ~ok /\ rowLock' = rowLock /\ RouteGoto("approve", "catch")
    /\ UNCHANGED <<mirror, ledgerStatus>>
    /\ UNCHANGED sagaVars
    /\ UNCHANGED contractVars
    /\ UNCHANGED codecVars
    /\ UNCHANGED reconVars

\* After COMMIT, when the threshold was reached: pool.query('UPDATE invoices
\* SET escrow_status = 'released' ...'), outside the transaction.  The
\* update waits for the row lock of an open transaction.
ApproveMarkReleased(ok) ==
    /\ hpc["approve"] = "released"
    /\ \/ /\ ok
          /\ rowLock[RouteInvoice] = 0
          /\ mirror' = [mirror EXCEPT ![RouteInvoice] = "released"]
          /\ RouteGoto("approve", "done")
       \/ ~ok /\ mirror' = mirror /\ RouteGoto("approve", "catch")
    /\ UNCHANGED <<rowLock, ledgerStatus>>
    /\ UNCHANGED sagaVars
    /\ UNCHANGED contractVars
    /\ UNCHANGED codecVars
    /\ UNCHANGED reconVars

approveRoute(ok, full) ==
    \/ full /\ RouteFetch("approve", ok, mirror[RouteInvoice] \in {"funded", "deposited"})
    \/ ApproveLedgerCall(ok, full)
    \/ full /\ ApproveCommit(ok)
    \/ full /\ ApproveMarkReleased(ok)
    \/ ok /\ full /\ RouteRollback("approve")

RouteNext ==
    \/ \E r \in Requests, ok \in BOOLEAN : releaseEscrow(r, ok)
    \/ \E ok \in BOOLEAN : processRecoveryQueue("worker", ok)
    \/ TimePasses
    \/ \E ok \in BOOLEAN : raiseDisputeRoute(ok)
    \/ \E ok, sellerWins \in BOOLEAN : resolveDisputeRoute(ok, sellerWins)
    \/ \E ok, full \in BOOLEAN : approveRoute(ok, full)

RouteSpec == Init /\ [][RouteNext]_vars

(***************************************************************************)
(* The reconciliation engine: runReconciliation pages through the          *)
(* escrow-bearing invoices, reads each one's ledger record, compares it    *)
(* with the mirror row, writes a reconciliation_logs row and counts the    *)
(* outcome in the reconciliation_summary row of the run.                   *)
(***************************************************************************)
MaxReconInvoices == 2
BatchSize == 1
InvoiceAmount == 100
OtherAmount == 200
Null == "NULL"

\* Mirror rows that have escrow data: escrow_status is set by the funding
\* and the handlers, or it is NULL and only escrow_tx_hash is set.
MirrorCases ==
    [escrow_status : {"funded", "released", "disputed", "resolved_seller_wins"},
     status : {"pending"}, amount : {InvoiceAmount}]
    \cup [escrow_status : {Null}, status : {"pending", "cancelled"}, amount : {InvoiceAmount}]

\* contract.escrows(id): a zero seller when there is no record, or the
\* record with its EscrowStatus number and amount.
NoRecord == [found |-> FALSE, status |-> 0, amount |-> 0]

LedgerRecords ==
    {NoRecord}
    \cup [found : {TRUE}, status : {1, 2, 3, 4}, amount : {InvoiceAmount}]
    \cup [found : {TRUE}, status : {1}, amount : {OtherAmount}]

NewInvoiceId == MaxReconInvoices + 1

NewInvoiceRow ==
    [invoice_id |-> NewInvoiceId, escrow_status |-> "funded", status |-> "pending",
     amount |-> InvoiceAmount]

MirrorRow(id, c) ==
    [invoice_id |-> id, escrow_status |-> c.escrow_status, status |-> c.status,
     amount |-> c.amount]

mapChainStatusToDb(chainStatus) ==
    CASE chainStatus = 0 -> "created"
      [] chainStatus = 1 -> "funded"
      [] chainStatus = 2 -> "disputed"
      [] chainStatus = 3 -> "released"
      [] chainStatus = 4 -> "expired"
      [] OTHER -> "unknown"

mapDbStatusToReconciliation(dbStatus) ==
    CASE dbStatus \in {"pending", "created", "payment_pending"} -> "created"
      [] dbStatus \in {"escrow_locked", "funded"} -> "funded"
      [] dbStatus \in {"released", "settled"} -> "released"
      [] dbStatus = "disputed" -> "disputed"
      [] dbStatus \in {"cancelled", "failed"} -> "expired"
      [] OTHER -> "not_found"

\* invoice.escrow_status || invoice.status
StatusColumn(dbInvoice) ==
    IF dbInvoice.escrow_status # Null THEN dbInvoice.escrow_status ELSE dbInvoice.status

\* getEscrowFromChain: the read's error is caught and returned as a value.
getEscrowFromChain(id, ok) ==
    IF ~ok THEN [status |-> "error", chainStatus |-> "unread", amount |-> 0]
    ELSE IF ~chain[id].found THEN [status |-> "not_found", chainStatus |-> "unread", amount |-> 0]
    ELSE [status |-> "found", chainStatus |-> mapChainStatusToDb(chain[id].status),
          amount |-> chain[id].amount]

\* An amount mismatch that replaces whatever type was found before it.
AmountTypeOverrides(type) == "amount_mismatch"

\* The type an amount mismatch leaves: an earlier status_mismatch is kept.
AmountType(type) ==
    IF type = "status_mismatch" THEN "status_mismatch" ELSE "amount_mismatch"

\* compareData, for a mirror row whose buyer and seller addresses agree with
\* the ledger's.
compareData(cd, dbInvoice) ==
    LET chainStatus == IF cd.status = "found" THEN cd.chainStatus ELSE "not_found"
        dbStatus == mapDbStatusToReconciliation(StatusColumn(dbInvoice))
        statusDiffers == chainStatus # dbStatus /\ chainStatus # "error"
        amountDiffers == /\ chainStatus \notin {"not_found", "error"}
                         /\ cd.amount # dbInvoice.amount
        type1 == IF statusDiffers THEN "status_mismatch" ELSE "none"
        type2 == IF amountDiffers THEN AmountType(type1) ELSE type1
    IN  [type |-> IF cd.status = "not_found" /\ dbInvoice.escrow_status # Null
                      THEN "missing_chain"
                  ELSE IF cd.status = "found" /\ dbInvoice.escrow_status = Null
                      THEN "missing_db"
                  ELSE type2,
         amountDiff |-> IF amountDiffers THEN cd.amount - dbInvoice.amount ELSE 0,
         issues |-> (IF statusDiffers THEN <<"Status mismatch">> ELSE <<>>)
                    \o (IF amountDiffers THEN <<"Amount mismatch">> ELSE <<>>)]

\* The CHECK constraints of reconciliation_logs.
ChainStatusCheck ==
    {"created", "funded", "disputed", "released", "expired", "not_found", "error"}

DbStatusCheck ==
    {"created", "payment_pending", "escrow_locked", "funded", "released", "disputed",
     "cancelled", "failed", "settled", "not_found"}

DiscrepancyTypeCheck ==
    {"none", "amount_mismatch", "status_mismatch", "missing_chain", "missing_db"}

InsertAccepted(row) ==
    /\ row.chain_status \in ChainStatusCheck
    /\ row.db_status \in DbStatusCheck
    /\ row.discrepancy_type \in DiscrepancyTypeCheck

Abs(n) == IF n < 0 THEN 0 - n ELSE n

ReconGoto(pc) == rcpc' = pc

ReconFrame ==
    /\ UNCHANGED backendVars
    /\ UNCHANGED contractVars
    /\ UNCHANGED codecVars
    /\ UNCHANGED routeVars

\* The invoice the for loop is at.
CurInvoice == batch[bidx]

\* The end of the for loop's body: the next invoice of the page, or
\* offset += batchSize and the while condition.
NextInvoice ==
    IF bidx < Len(batch)
        THEN bidx' = bidx + 1 /\ offset' = offset /\ ReconGoto("chain")
        ELSE /\ bidx' = bidx
             /\ offset' = offset + BatchSize
             /\ ReconGoto(IF offset + BatchSize < totalInvoices THEN "page" ELSE "update")

\* UPDATE reconciliation_summary ... WHERE run_id = $1: no row, no change.
UpdatedSummaryRow(sm) ==
    IF summaryRow.status = "absent" THEN summaryRow
    ELSE [summaryRow EXCEPT !.matched_count = sm.matchedCount,
                            !.discrepancy_count = sm.discrepancyCount,
                            !.missing_chain_count = sm.missingChainCount,
                            !.missing_db_count = sm.missingDbCount,
                            !.total_discrepancy_amount = sm.totalDiscrepancyAmount,
                            !.status = sm.status]

\* totalInvoices = await getInvoicesWithEscrowCount()
ReconCount(ok) ==
    /\ rcpc = "start"
    /\ \/ ok /\ totalInvoices' = Len(invoices) /\ ReconGoto("createSummary")
            /\ engineFault' = engineFault
       \/ ~ok /\ totalInvoices' = totalInvoices /\ ReconGoto("catch")
             /\ engineFault' = TRUE
    /\ UNCHANGED <<invoices, chain, logs, summaryRow, offset, batch, bidx, chainData,
                   summary, returned, invoiceFaults>>
    /\ ReconFrame

\* await createReconciliationSummary(runId, type, totalInvoices), then the
\* first test of while (offset < totalInvoices).
ReconCreateSummary(ok) ==
    /\ rcpc = "createSummary"
    /\ \/ /\ ok
          /\ summaryRow' = [NoSummaryRow EXCEPT !.status = "running",
                                                !.total_invoices = totalInvoices]
          /\ ReconGoto(IF offset < totalInvoices THEN "page" ELSE "update")
          /\ engineFault' = engineFault
       \/ ~ok /\ summaryRow' = summaryRow /\ ReconGoto("catch") /\ engineFault' = TRUE
    /\ UNCHANGED <<invoices, chain, logs, totalInvoices, offset, batch, bidx, chainData,
                   summary, returned, invoiceFaults>>
    /\ ReconFrame

\* invoices = await getInvoicesWithEscrow(batchSize, offset): ORDER BY
\* created_at DESC LIMIT batchSize OFFSET offset; an empty page breaks.
getInvoicesWithEscrow(limit, off) ==
    SubSeq(invoices, off + 1, Min(off + limit, Len(invoices)))

ReconFetchBatch(ok) ==
    /\ rcpc = "page"
    /\ \/ /\ ok
          /\ batch' = getInvoicesWithEscrow(BatchSize, offset)
          /\ bidx' = 1
          /\ ReconGoto(IF Len(getInvoicesWithEscrow(BatchSize, offset)) = 0
                           THEN "update" ELSE "chain")
          /\ engineFault' = engineFault
       \/ ~ok /\ UNCHANGED <<batch, bidx>> /\ ReconGoto("catch") /\ engineFault' = TRUE
    /\ UNCHANGED <<invoices, chain, logs, summaryRow, totalInvoices, offset, chainData,
                   summary, returned, invoiceFaults>>
    /\ ReconFrame

\* chainData = await getEscrowFromChain(invoice.invoice_id)
ReconReadChain(ok) ==
    /\ rcpc = "chain"
    /\ chainData' = getEscrowFromChain(CurInvoice.invoice_id, ok)
    /\ invoiceFaults' = IF ok THEN invoiceFaults
                        ELSE invoiceFaults \cup {CurInvoice.invoice_id}
    /\ ReconGoto("log")
    /\ UNCHANGED <<invoices, chain, logs, summaryRow, totalInvoices, offset, batch, bidx,
                   summary, returned, engineFault>>
    /\ ReconFrame

\* The row handed to logReconciliationResult in the try block.
ResultRow(cd, dbInvoice) ==
    [invoice_id |-> dbInvoice.invoice_id,
     chain_status |-> IF cd.status = "found" THEN cd.chainStatus
                      ELSE IF cd.status = "error" THEN "error" ELSE "not_found",
     db_status |-> mapDbStatusToReconciliation(StatusColumn(dbInvoice)),
     discrepancy_type |-> compareData(cd, dbInvoice).type,
     notes |-> compareData(cd, dbInvoice).issues]

\* summary after the counts of one discrepancy were added.
Counted(sm, d) ==
    IF d.type = "none" THEN [sm EXCEPT !.matchedCount = @ + 1]
    ELSE [sm EXCEPT !.discrepancyCount = @ + 1,
                    !.missingChainCount = IF d.type = "missing_chain" THEN @ + 1 ELSE @,
                    !.missingDbCount = IF d.type = "missing_db" THEN @ + 1 ELSE @,
                    !.totalDiscrepancyAmount = @ + Abs(d.amountDiff)]

\* compareData, await logReconciliationResult({...}), the summary counts;
\* an insert that raises goes to the inner catch.
ReconLog(ok) ==
    /\ rcpc = "log"
    /\ \/ /\ ok /\ InsertAccepted(ResultRow(chainData, CurInvoice))
          /\ logs' = Append(logs, ResultRow(chainData, CurInvoice))
          /\ summary' = Counted(summary, compareData(chainData, CurInvoice))
          /\ invoiceFaults' = invoiceFaults
          /\ NextInvoice
       \/ /\ ok /\ ~InsertAccepted(ResultRow(chainData, CurInvoice))
          /\ ReconGoto("errorLog")
          /\ UNCHANGED <<logs, summary, invoiceFaults, bidx, offset>>
       \/ /\ ~ok
          /\ ReconGoto("errorLog")
          /\ invoiceFaults' = invoiceFaults \cup {CurInvoice.invoice_id}
          /\ UNCHANGED <<logs, summary, bidx, offset>>
    /\ UNCHANGED <<invoices, chain, summaryRow, totalInvoices, batch, chainData,
                   returned, engineFault>>
    /\ ReconFrame

\* The row of the inner catch block.
ErrorRow(dbInvoice) ==
    [invoice_id |-> dbInvoice.invoice_id,
     chain_status |-> "error",
     db_status |-> mapDbStatusToReconciliation(StatusColumn(dbInvoice)),
     discrepancy_type |-> "error",
     notes |-> <<"error.message">>]

\* The inner catch: await logReconciliationResult({... discrepancyType:
\* 'error' ...}); it is not guarded, so an insert that raises leaves the
\* loops for the outer catch.
ReconLogError(ok) ==
    /\ rcpc = "errorLog"
    /\ \/ /\ ok /\ InsertAccepted(ErrorRow(CurInvoice))
          /\ logs' = Append(logs, ErrorRow(CurInvoice))
          /\ engineFault' = engineFault
          /\ NextInvoice
       \/ /\ ok /\ ~InsertAccepted(ErrorRow(CurInvoice))
          /\ ReconGoto("catch")
          /\ UNCHANGED <<logs, engineFault, bidx, offset>>
       \/ /\ ~ok
          /\ ReconGoto("catch")
          /\ engineFault' = TRUE
          /\ UNCHANGED <<logs, bidx, offset>>
    /\ UNCHANGED <<invoices, chain, summaryRow, totalInvoices, batch, chainData, summary,
                   returned, invoiceFaults>>
    /\ ReconFrame

\* await updateReconciliationSummary(runId, summary); return completed.
ReconUpdateSummary(ok) ==
    /\ rcpc = "update"
    /\ \/ /\ ok
          /\ summaryRow' = UpdatedSummaryRow(summary)
          /\ returned' = "completed"
          /\ ReconGoto("done")
          /\ engineFault' = engineFault
       \/ ~ok /\ UNCHANGED <<summaryRow, returned>> /\ ReconGoto("catch")
             /\ engineFault' = TRUE
    /\ UNCHANGED <<invoices, chain, logs, totalInvoices, offset, batch, bidx, chainData,
                   summary, invoiceFaults>>
    /\ ReconFrame

\* The outer catch: summary.status = 'failed'; await
\* updateReconciliationSummary(runId, summary); return failed.  When the
\* update raises, the call rejects.
ReconCatch(ok) ==
    /\ rcpc = "catch"
    /\ summary' = [summary EXCEPT !.status = "failed"]
    /\ \/ /\ ok
          /\ summaryRow' = UpdatedSummaryRow([summary EXCEPT !.status = "failed"])
          /\ returned' = "failed"
          /\ engineFault' = engineFault
       \/ ~ok /\ summaryRow' = summaryRow /\ returned' = "threw" /\ engineFault' = TRUE
    /\ ReconGoto("done")
    /\ UNCHANGED <<invoices, chain, logs, totalInvoices, offset, batch, bidx, chainData,
                   invoiceFaults>>
    /\ ReconFrame

runReconciliation(ok) ==
    \/ ReconCount(ok)
    \/ ReconCreateSummary(ok)
    \/ ReconFetchBatch(ok)
    \/ ReconReadChain(ok)
    \/ ReconLog(ok)
    \/ ReconLogError(ok)
    \/ ReconUpdateSummary(ok)
    \/ ReconCatch(ok)

\* Another request inserts an escrow-bearing invoice while the run is under
\* way; it is the newest row.
InsertInvoice ==
    /\ rcpc \notin {"off", "done"}
    /\ Len(invoices) = MaxReconInvoices
    /\ invoices' = <<NewInvoiceRow>> \o invoices
    /\ UNCHANGED <<chain, logs, summaryRow, rcpc, totalInvoices, offset, batch, bidx,
                   chainData, summary, returned, invoiceFaults, engineFault>>
    /\ ReconFrame

\* A run starts over MaxReconInvoices rows, the newest first.
ReconInit ==
    /\ BackendInit
    /\ ContractInit
    /\ CodecInit
    /\ RouteInit
    /\ \E c \in [1..MaxReconInvoices -> MirrorCases] :
           invoices = [k \in 1..MaxReconInvoices |->
                           MirrorRow(MaxReconInvoices + 1 - k, c[MaxReconInvoices + 1 - k])]
    /\ \E l \in [1..MaxReconInvoices -> LedgerRecords] :
           chain = [id \in 1..NewInvoiceId |->
                        IF id = NewInvoiceId
                            THEN [found |-> TRUE, status |-> 1, amount |-> InvoiceAmount]
                            ELSE l[id]]
    /\ rcpc = "start"
    /\ ReconFresh

ReconNext ==
    \/ \E ok \in BOOLEAN : runReconciliation(ok)
    \/ InsertInvoice

ReconSpec == ReconInit /\ [][ReconNext]_vars

(***************************************************************************)
(* Properties of the recovery pipeline.                                    *)
(***************************************************************************)
SagaExists(c) == saga[c] # NoSaga
DlqRowsOf(c) == {i \in 1..Len(dlq) : dlq[i].cid = c}
QueueRowsOf(c) == {r \in queue : r.cid = c}
MovingToDLQ(c) == \E t \in Ticks : tpc[t] \in {"dlqSaga", "dlqDelete"} /\ Op(t).cid = c

\* C1: every saga created by releaseEscrow eventually reaches COMPLETED or
\* DLQ while the recovery worker keeps ticking.
C1_SagaConverges ==
    \A c \in CorrIds : SagaExists(c) ~> (saga[c].state \in {"COMPLETED", "DLQ"})

\* C11: for every retry count r >= 0 addToRecoveryQueue sets the delay to
\* min(2^r, 60) minutes: it lies in [1, 60] and never decreases as r grows.
C11_BackoffInRangeAndMonotone ==
    \A row \in queue :
        /\ row.next_retry_in >= 1 /\ row.next_retry_in <= 60
        /\ Pow2(row.retry_count) <= 60 => row.next_retry_in = Pow2(row.retry_count)
        /\ Pow2(row.retry_count) > 60 => row.next_retry_in = 60
        /\ \A q \in 0..row.retry_count : BackoffMinutes(q) <= row.next_retry_in

C11_Witness ==
    \E row \in queue : row.retry_count >= 6 /\ row.next_retry_in = 60

\* C12: a call of addToRecoveryQueue leaves exactly one recovery row for the
\* correlation id, PENDING with the call's retry count: a repeated enqueue
\* replaces the row, it neither adds a second row nor fails.
EnqueuedOnce(c, retryCount) ==
    /\ Cardinality({r \in queue' : r.cid = c}) = 1
    /\ \A r \in queue' : r.cid = c => r.status = "PENDING" /\ r.retry_count = retryCount

C12_EnqueueReplacesRow ==
    [][/\ \A r \in Requests :
             (rpc[r] = "enqueue" /\ rpc'[r] # "enqueue") => EnqueuedOnce(r, 0)
       /\ \A t \in Ticks :
             (tpc[t] = "catch" /\ ~RetriesExhausted(Op(t)) /\ tpc'[t] # "catch")
                 => EnqueuedOnce(Op(t).cid, NewRetryCount(Op(t)))]_vars

\* C13: a release whose ledger submit fails transiently is retried through
\* recovery rows with retry_count 1 then 2 and backoff 2 then 4 minutes: the
\* first failure enqueues retry_count 1 with a 2 minute backoff, and the
\* attempt that completes the saga has committed the ledger transaction and
\* leaves the DLQ empty.
C13_TransientRetryConverges ==
    [][/\ \A r \in Requests :
             (rpc[r] = "enqueue" /\ rpc'[r] = "markFailed")
                 => \E row \in queue' :
                        row.cid = r /\ row.retry_count = 1 /\ row.next_retry_in = 2
       /\ \A t \in Ticks :
             (/\ tpc[t] = "sagaCompleted"
              /\ saga[Op(t).cid].state # "COMPLETED"
              /\ saga'[Op(t).cid].state = "COMPLETED")
                 => Op(t).op.invoiceId \in Invoices
                    /\ ledgerTx[Op(t).op.invoiceId] /\ dlq' = <<>>]_vars

\* C14: a release is promoted to the DLQ with requires_compensation = true
\* exactly when its saga completed the BLOCKCHAIN_TX step; a release that
\* failed before any ledger transaction was committed is promoted with
\* requires_compensation = false.
StepsCompletedOf(c) == {saga[c].steps_completed[i] : i \in 1..Len(saga[c].steps_completed)}
LedgerCommitted(invoiceId) == invoiceId \in Invoices /\ ledgerTx[invoiceId]

C14_CompensationIffLedgerStepDone ==
    \A i \in 1..Len(dlq) :
        dlq[i].op.operationType = "ESCROW_RELEASE" =>
            /\ dlq[i].requires_compensation <=> "BLOCKCHAIN_TX" \in StepsCompletedOf(dlq[i].cid)
            /\ ~LedgerCommitted(dlq[i].op.invoiceId) => ~dlq[i].requires_compensation

\* C15: a release saga promoted to the DLQ after its ledger transaction
\* succeeded has exactly one DLQ entry, with requires_compensation = true,
\* and a CompensationAction row for its correlation id in status PENDING.
C15_DlqHasPendingCompensation ==
    \A c \in CorrIds :
        (/\ SagaExists(c) /\ saga[c].state = "DLQ" /\ ~MovingToDLQ(c)
         /\ LedgerCommitted(saga[c].entity_id)) =>
            /\ Cardinality(DlqRowsOf(c)) = 1
            /\ \A i \in DlqRowsOf(c) : dlq[i].requires_compensation
            /\ \E a \in compensation_actions : a.correlation_id = c /\ a.status = "PENDING"

\* C16: once a correlation id has a DLQ entry, no recovery tick invokes the
\* re-execution handler for it again, and no step of a tick takes its saga
\* out of the DLQ state.
C16_NoRetryAfterDlq ==
    [][\A t \in Ticks :
          /\ invoked'[t] \ invoked[t] # {} => DlqRowsOf(Op(t).cid) = {}
          /\ tpc'[t] # tpc[t] =>
                \A c \in CorrIds :
                    (DlqRowsOf(c) # {} /\ saga[c].state = "DLQ") => saga'[c].state = "DLQ"]_vars

\* C17: a releaseEscrow request rejected because its invoice does not exist
\* is rejected synchronously: when its catch block has run, no recovery row
\* exists for its saga.
C17_ValidationErrorNotEnqueued ==
    \A r \in Requests :
        (/\ rinv[r] \notin Invoices
         /\ rpc[r] \in {"markFailed", "done"}
         /\ SagaExists(r) /\ saga[r].state = "PROCESSING") => QueueRowsOf(r) = {}

\* C18: updateTransactionState rejects a transition out of COMPLETED, DLQ or
\* COMPENSATED: a saga in one of these states keeps its state, its step lists
\* and its completed_at.
C18_TerminalStatesRejectUpdates ==
    [][\A c \in CorrIds :
          (SagaExists(c) /\ saga[c].state \in {"COMPLETED", "DLQ", "COMPENSATED"})
              => saga'[c] = saga[c]]_vars

\* C19: every saga state change is one of PENDING -> PROCESSING,
\* PROCESSING -> COMPLETED, PROCESSING -> FAILED, FAILED -> DLQ,
\* {PROCESSING, FAILED} -> COMPENSATING, COMPENSATING -> COMPENSATED.
AllowedTransitions ==
    {<<"PENDING", "PROCESSING">>, <<"PROCESSING", "COMPLETED">>, <<"PROCESSING", "FAILED">>,
     <<"FAILED", "DLQ">>, <<"PROCESSING", "COMPENSATING">>, <<"FAILED", "COMPENSATING">>,
     <<"COMPENSATING", "COMPENSATED">>}

C19_OnlyAllowedTransitions ==
    [][\A c \in CorrIds :
          (SagaExists(c) /\ saga'[c].state # saga[c].state)
              => <<saga[c].state, saga'[c].state>> \in AllowedTransitions]_vars

\* C20: publishing escrow:released is not part of saga completion: once
\* releaseEscrow has marked the saga COMPLETED, a failing publish leaves the
\* saga COMPLETED, inserts no recovery row and leaves the mirror released.
C20_PublishFailureKeepsCompletion ==
    [][\A r \in Requests :
          (/\ SagaExists(r) /\ saga[r].state = "COMPLETED"
           /\ saga[r].steps_completed = InitialSteps
           /\ rpc[r] \in {"emit", "catch", "enqueue", "markFailed"})
              => /\ saga'[r].state = "COMPLETED"
                 /\ \A row \in queue' : row.cid # r
                 /\ rinv[r] \in Invoices => mirror'[rinv[r]] = "released"]_vars

\* C3: the recovery handler sets an invoice's mirror status to released only
\* when a ledger release transaction for that invoice was committed.
C3_RecoveryReleaseNeedsLedgerTx ==
    \A i \in Invoices : recoveryWrote[i] => ledgerTx[i]

\* C4: every saga whose current_state is COMPLETED has an empty
\* steps_remaining list.
C4_CompletedHasNoStepsRemaining ==
    \A c \in CorrIds : saga[c].state = "COMPLETED" => saga[c].steps_remaining = <<>>

\* C7: moveToDLQ is all-or-nothing: once it has returned or raised, either
\* the DLQ row is inserted, the saga is in DLQ and the recovery row is gone,
\* or none of the three holds.
C7_MoveToDLQAtomic ==
    \A c \in CorrIds :
        (SagaExists(c) /\ ~MovingToDLQ(c)) =>
            \/ DlqRowsOf(c) # {} /\ saga[c].state = "DLQ" /\ QueueRowsOf(c) = {}
            \/ DlqRowsOf(c) = {} /\ saga[c].state # "DLQ"

\* C8: the DLQ rows and the sagas in state DLQ correspond one to one: a saga
\* in DLQ has exactly one dead_letter_queue row, any other saga has none.
C8_DlqOneToOne ==
    \A c \in CorrIds :
        ~MovingToDLQ(c) =>
            Cardinality(DlqRowsOf(c)) = IF SagaExists(c) /\ saga[c].state = "DLQ" THEN 1 ELSE 0

\* C9: no pending occurrence of a recovery row (its id and retry count) has
\* its re-execution handler invoked by two runs of processRecoveryQueue.
C9_EntryClaimedByOneTick ==
    \A t1, t2 \in Ticks : t1 # t2 => invoked[t1] \cap invoked[t2] = {}

\* C10: a tick that has re-executed an entry with retry count r leaves it
\* deleted with the saga COMPLETED on success; on failure it leaves it in the
\* DLQ when r + 1 >= max_retries, and otherwise leaves the same row PENDING
\* with retry_count = r + 1 and the backoff of r + 1.
IterationOutcome(t) ==
    LET op == Op(t) IN
    IF tpc[t] = "delete" /\ tpc'[t] # "catch"
    THEN /\ \A r \in queue' : r.id # op.id
         /\ saga'[op.cid].state = "COMPLETED"
    ELSE IF RetriesExhausted(op)
    THEN /\ \E i \in 1..Len(dlq') : dlq'[i].cid = op.cid
         /\ saga'[op.cid].state = "DLQ"
         /\ \A r \in queue' : r.cid # op.cid
    ELSE \E r \in queue' :
            /\ r.id = op.id /\ r.status = "PENDING"
            /\ r.retry_count = op.retry_count + 1
            /\ r.next_retry_in = BackoffMinutes(op.retry_count + 1)

C10_TickOutcome ==
    [][\A t \in Ticks :
          (/\ tpc[t] # "idle"
           /\ <<Op(t).id, Op(t).retry_count>> \in invoked[t]
           /\ tidx'[t] # tidx[t]) => IterationOutcome(t)]_vars

(***************************************************************************)
(* Properties of the escrow contract.                                      *)
(***************************************************************************)
BothConfirmed(e) == e.sellerConfirmed /\ e.buyerConfirmed

\* C2: for every escrow the funds are paid out at most once: the total the
\* contract transferred out for it never exceeds what was deposited for it.
C2_PaidOutAtMostDeposited ==
    \A id \in EscrowIds : paidOut[id] <= deposited[id]

\* C5: when confirmRelease makes both confirmation flags of a funded escrow
\* true, the escrow's status becomes Released, the treasury receives
\* feeAmount and the seller receives amount - feeAmount.
C5_ConfirmedReleasePaysFee ==
    [][\A id \in EscrowIds :
          (/\ escrows[id].status = "Funded"
           /\ ~BothConfirmed(escrows[id])
           /\ BothConfirmed(escrows'[id]))
          => /\ escrows'[id].status = "Released"
             /\ lastRelease'.id = id
             /\ lastRelease'.toTreasury = escrows[id].feeAmount
             /\ lastRelease'.winner = "seller"
             /\ lastRelease'.toWinner = escrows[id].amount - escrows[id].feeAmount]_vars

\* C6: in every release, by a dispute's resolution or by confirmRelease, the
\* fee sent to the treasury plus the payout sent to the winner equals the
\* escrow's recorded amount, and amount - fee cannot underflow.
C6_FeePlusPayoutIsAmount ==
    /\ lastRelease.via # "none" =>
            lastRelease.toTreasury + lastRelease.toWinner = lastRelease.recorded
    /\ \A id \in EscrowIds : escrows[id].feeAmount <= escrows[id].amount

C6_Witness ==
    /\ lastRelease.via \in {"voteOnDispute", "resolveDispute", "safeEscape"}
    /\ lastRelease.toTreasury > 0
    /\ lastRelease.toWinner > 0
\* The votes a quorum needs: the ceiling of snapshot * quorumPercentage / 100,
\* and at least 1.
CeilQuorum(snapshot) ==
    LET q == (snapshot * QuorumPercentage + 99) \div 100 IN IF q = 0 THEN 1 ELSE q

TotalVotes(v) == v.votesForBuyer + v.votesForSeller

VoteCounted(id) == TotalVotes(disputeVotings'[id]) = TotalVotes(disputeVotings[id]) + 1

\* C21: a vote resolves the dispute exactly when, after it, votesForBuyer +
\* votesForSeller >= max(1, ceiling(snapshot * quorumPercentage / 100)); with
\* snapshot 10 and 51 percent that is the 6th vote, not the 5th.
C21_ResolvesAtCeilingQuorum ==
    [][\A id \in EscrowIds :
          VoteCounted(id)
              => (disputeVotings'[id].resolved
                    <=> TotalVotes(disputeVotings'[id])
                            >= CeilQuorum(disputeVotings'[id].snapshotArbitratorCount))]_vars
\* C22: a dispute's snapshotArbitratorCount is the live arbitrator count at
\* raiseDispute and never increases afterwards: each vote leaves it equal to
\* min(previous snapshot, live count), also when arbitrators were added.
C22_SnapshotOnlyShrinks ==
    [][\A id \in EscrowIds :
          LET snapshot == disputeVotings[id].snapshotArbitratorCount
              after == disputeVotings'[id].snapshotArbitratorCount
          IN  /\ (~escrows[id].disputeRaised /\ escrows'[id].disputeRaised)
                    => after = Cardinality(arbitrators)
              /\ escrows[id].disputeRaised => after <= snapshot
              /\ (escrows[id].disputeRaised /\ VoteCounted(id))
                    => after = Min(snapshot, Cardinality(arbitrators))]_vars

C22_Witness ==
    \E id \in EscrowIds :
        /\ escrows[id].status = "Disputed"
        /\ TotalVotes(disputeVotings[id]) >= 2
        /\ disputeVotings[id].snapshotArbitratorCount < Cardinality(arbitrators)
\* C23: for an unresolved disputed escrow the admin's safeEscape succeeds if
\* and only if the live arbitrator count is strictly below the votes a quorum
\* needs, ceiling(snapshot * quorumPercentage / 100); otherwise it reverts.
C23_SafeEscapeIffQuorumUnreachable ==
    \A id \in EscrowIds :
        (escrows[id].status = "Disputed" /\ ~disputeVotings[id].resolved)
            => ((ENABLED safeEscape(id, TRUE))
                    <=> Cardinality(arbitrators)
                            < CeilQuorum(disputeVotings[id].snapshotArbitratorCount))
\* C24: when a vote resolves a dispute, the seller wins if and only if
\* votesForSeller > votesForBuyer at that moment, a tie goes to the buyer, and
\* the payout is transferred to the winner.
C24_MajorityWinsTieToBuyer ==
    [][\A id \in EscrowIds :
          (/\ escrows[id].status = "Disputed"
           /\ VoteCounted(id)
           /\ disputeVotings'[id].resolved)
          => LET v == disputeVotings'[id]
                 winner == IF v.votesForSeller > v.votesForBuyer THEN "seller" ELSE "buyer"
             IN  /\ lastRelease'.via = "voteOnDispute"
                 /\ lastRelease'.id = id
                 /\ lastRelease'.winner = winner
                 /\ \E i \in 1..Len(lastRelease'.transfers) :
                        lastRelease'.transfers[i] = Transfer("funds", winner)
                 /\ paidOut'[id] = paidOut[id] + escrows[id].amount]_vars

C24_Witness ==
    \E id \in EscrowIds :
        /\ lastRelease.via = "voteOnDispute"
        /\ lastRelease.id = id
        /\ disputeVotings[id].resolved
        /\ disputeVotings[id].votesForSeller = disputeVotings[id].votesForBuyer
        /\ lastRelease.winner = "buyer"
\* C25: in every dispute each arbitrator's vote is counted at most once:
\* votesForBuyer + votesForSeller equals the number of arbitrators marked
\* hasVoted for that dispute.
C25_TallyEqualsVoters ==
    \A id \in EscrowIds :
        escrows[id].status = "Disputed"
            => TotalVotes(disputeVotings[id]) = Cardinality(hasVoted[id])
Parties == {"seller", "buyer"}

\* C26: confirmRelease pays a funded escrow out only after both the seller
\* and the buyer have each called confirmRelease on it: one party's call
\* alone never triggers the payout.
C26_ReleaseNeedsBothCalls ==
    [][\A id \in EscrowIds, caller \in Parties :
          (confirmRelease(id, caller) /\ paidOut'[id] > paidOut[id])
              => confirmCalls'[id] = Parties]_vars
\* C27: for a funded escrow past expiresAt whose funds were neither released
\* nor reclaimed, after one party's confirmRelease past expiry (which marks
\* the escrow Expired) the other party's confirmRelease is still accepted and
\* executes the release.
C27_ExpiredEscrowCanStillRelease ==
    \A id \in EscrowIds, other \in Parties :
        (/\ escrows[id].status = "Expired"
         /\ now > escrows[id].expiresAt
         /\ paidOut[id] = 0
         /\ confirmCalls[id] = Parties \ {other})
        => ENABLED (confirmRelease(id, other) /\ paidOut'[id] > paidOut[id])
\* C28: in every release payout the fee goes to the treasury first, then the
\* remainder to the winner, then the NFT: to the buyer on a normal release
\* and when the seller wins a dispute, to the seller when the buyer wins.
C28_FeeThenPayoutThenNft ==
    lastRelease.via # "none" =>
        LET t == lastRelease.transfers
            nftTo == IF lastRelease.via = "confirmRelease" \/ lastRelease.winner = "seller"
                     THEN "buyer" ELSE "seller"
        IN  /\ Len(t) \in {2, 3}
            /\ t[1] = Transfer("fee", "treasury")
            /\ t[2] = Transfer("funds", lastRelease.winner)
            /\ Len(t) = 3 => t[3] = Transfer("nft", nftTo)
\* C29: reclaimExpiredFunds succeeds only for the recorded buyer, in status
\* Funded or Expired and after expiresAt; then the buyer receives the escrow
\* amount, a held NFT returns to the seller and the status is Expired.  In
\* every other case it reverts.
C29_ReclaimOnlyByBuyerAfterExpiry ==
    [][\A id \in EscrowIds, caller \in Parties :
          LET e == escrows[id] IN
          /\ (ENABLED reclaimExpiredFunds(id, caller))
                => /\ caller = "buyer" /\ e.buyer = "buyer"
                   /\ e.status \in {"Funded", "Expired"}
                   /\ now > e.expiresAt
          /\ reclaimExpiredFunds(id, caller)
                => /\ paidOut'[id] = paidOut[id] + e.amount
                   /\ held'[e.token] = held[e.token] - e.amount
                   /\ e.hasNft => nftHolder'[id] = "seller"
                   /\ escrows'[id] = [e EXCEPT !.status = "Expired"]]_vars

C29_Witness ==
    \E id \in EscrowIds :
        /\ escrows[id].status = "Expired"
        /\ escrows[id].hasNft /\ nftHolder[id] = "seller"
        /\ paidOut[id] = escrows[id].amount
        /\ paidOut[id] > 0
\* C30: after setFeePercentage(f) with 0 < f <= 1000 and any later
\* setMinimumEscrowAmount calls, every escrow createEscrow accepts has
\* amount >= ceiling(10000 / f) and feeAmount = floor(amount * f / 10000) >= 1;
\* createEscrow with a smaller amount reverts.
C30_AcceptedEscrowPaysFee ==
    [][\A id \in EscrowIds :
          LET f == feePercentage
              minimum == (10000 + f - 1) \div f
          IN  f > 0 =>
                /\ (escrows[id].seller = ZeroAddress /\ escrows'[id].seller # ZeroAddress)
                      => /\ escrows'[id].amount >= minimum
                         /\ escrows'[id].feeAmount = (escrows'[id].amount * f) \div 10000
                         /\ escrows'[id].feeAmount >= 1
                /\ \A amount \in AmountInputs :
                      amount < minimum => ~ENABLED createEscrow(id, amount, "erc20", 1, FALSE)]_vars

C30_Witness ==
    \E id \in EscrowIds :
        /\ feePercentage = 3
        /\ minimumEscrowAmount = 10000
        /\ escrows[id].amount = 10000
        /\ escrows[id].feeAmount = 3
\* C40: voting state does not leak between disputes of one invoice id: a
\* dispute in which no vote was cast yet has zero votes and resolved = false,
\* and every registered arbitrator can vote in it.
C40_NewDisputeStartsClean ==
    \A id \in EscrowIds :
        (/\ escrows[id].status = "Disputed"
         /\ TotalVotes(disputeVotings[id]) = 0
         /\ ~ResolveEscrowReverts(id, escrows[id]))
        => /\ ~disputeVotings[id].resolved
           /\ \A a \in arbitrators : ENABLED voteOnDispute(id, a, TRUE)
\* C38: a recovery-queue entry never stays in status PROCESSING forever: a
\* later tick picks it up again (it is PENDING or deleted on success) or it
\* leaves the queue for the DLQ.
C38_ProcessingRowIsPickedUpAgain ==
    \A c \in CorrIds :
        (\E row \in QueueRowsOf(c) : row.status = "PROCESSING")
            ~> (\A row \in QueueRowsOf(c) : row.status # "PROCESSING")
\* C37: the invoice-id codec round-trips: uuidToBytes32(u) is the 16 bytes
\* of u left-aligned followed by 16 zero bytes, and
\* bytes32ToUuid(uuidToBytes32(u)) = u.
C37_CodecRoundTrips ==
    /\ codecUuid # Unset =>
            codecWord = <<"0", "x">> \o WithoutDashes(codecUuid) \o Repeat("0", 32)
    /\ codecOut # Unset => codecOut = codecUuid
\* C31: once an invoice's mirror escrow_status is released it is terminal:
\* no later releaseEscrow, raiseDispute, resolveDispute, approval or
\* recovery retry changes it to another value.
C31_ReleasedMirrorIsTerminal ==
    [][\A i \in Invoices : mirror[i] = "released" => mirror'[i] = "released"]_vars

\* C32: every change of an invoice's mirror escrow_status is made inside
\* a transaction that holds the invoice's row lock from its status check
\* to its write: a step that changes the status is taken while the row
\* lock is held.
C32_StatusWrittenUnderRowLock ==
    [][\A i \in Invoices : mirror'[i] # mirror[i] => rowLock[i] # 0]_vars

\* A mirror status and a ledger record the handlers and the ledger produce
\* together: funded; released by confirmation (the ledger keeps the escrow
\* Funded, or Expired after the deadline); disputed; resolved (the ledger
\* deleted the escrow).
HandlerWritten(row, rec) ==
    \/ row.escrow_status = "funded" /\ rec.found /\ rec.status = 1 /\ rec.amount = row.amount
    \/ row.escrow_status = "released" /\ rec.found /\ rec.status \in {1, 4}
                                      /\ rec.amount = row.amount
    \/ row.escrow_status = "disputed" /\ rec.found /\ rec.status = 2 /\ rec.amount = row.amount
    \/ row.escrow_status = "resolved_seller_wins" /\ ~rec.found

\* C33: a reconciliation run with no concurrent change and no failure, over
\* invoices whose mirror rows the handlers wrote for escrows the ledger
\* reached, ends with discrepancy_count = 0 and every invoice matched.
C33_QuietRunFindsNoDiscrepancy ==
    (/\ returned = "completed"
     /\ Len(invoices) = MaxReconInvoices
     /\ invoiceFaults = {} /\ ~engineFault
     /\ \A k \in DOMAIN invoices : HandlerWritten(invoices[k], chain[invoices[k].invoice_id]))
    => /\ summaryRow.discrepancy_count = 0
       /\ summaryRow.matched_count = MaxReconInvoices

\* C34: when the only failures of a run are failed ledger reads or failed
\* log inserts of single invoices, each such invoice gets a log row with
\* discrepancy_type = error, the run goes on and the summary ends completed.
C34_InvoiceErrorIsLoggedAndRunCompletes ==
    (rcpc = "done" /\ invoiceFaults # {} /\ ~engineFault)
    => /\ returned = "completed"
       /\ summaryRow.status = "completed"
       /\ \A id \in invoiceFaults :
              \E k \in DOMAIN logs : /\ logs[k].invoice_id = id
                                     /\ logs[k].discrepancy_type = "error"

\* C35: when the ledger record and the mirror status of an invoice both
\* exist and their canonical statuses differ, the step that logs the invoice
\* (in a run no ledger read or log insert of which was made to fail) writes a row of type status_mismatch (also when the amounts differ) whose
\* notes contain 'Status mismatch', adds 1 to discrepancyCount and leaves
\* matchedCount alone.
C35_StatusMismatchIsClassifiedAndCounted ==
    [][(/\ rcpc = "log" /\ rcpc' # "log"
        /\ invoiceFaults = {} /\ invoiceFaults' = {}
        /\ chainData.status = "found"
        /\ CurInvoice.escrow_status # Null
        /\ chainData.chainStatus # mapDbStatusToReconciliation(CurInvoice.escrow_status))
       => /\ Len(logs') = Len(logs) + 1
          /\ logs'[Len(logs')].invoice_id = CurInvoice.invoice_id
          /\ logs'[Len(logs')].discrepancy_type = "status_mismatch"
          /\ \E n \in DOMAIN logs'[Len(logs')].notes :
                 logs'[Len(logs')].notes[n] = "Status mismatch"
          /\ summary'.discrepancyCount = summary.discrepancyCount + 1
          /\ summary'.matchedCount = summary.matchedCount]_vars

C35_Witness ==
    \E k \in DOMAIN logs :
        /\ logs[k].discrepancy_type = "status_mismatch"
        /\ logs[k].notes = <<"Status mismatch", "Amount mismatch">>
        /\ logs[k].chain_status = "funded" /\ logs[k].db_status = "released"
        /\ summary.discrepancyCount >= 1

LogCount(id) == Cardinality({k \in DOMAIN logs : logs[k].invoice_id = id})

\* C36: a run that completes without failures has written exactly one log
\* row for every escrow-bearing invoice that was there when it started, and
\* at most one for an invoice inserted while it was paging.
C36_OneLogRowPerInvoice ==
    (returned = "completed" /\ invoiceFaults = {} /\ ~engineFault)
    => /\ \A id \in 1..MaxReconInvoices : LogCount(id) = 1
       /\ LogCount(NewInvoiceId) <= 1

\* C39: a runReconciliation call that returned (completed or failed) has
\* left a summary row for its run id whose status is completed or failed.
C39_ReturnedRunHasFinalSummary ==
    returned \in {"completed", "failed"} => summaryRow.status \in {"completed", "failed"}
====
